---- MODULE Spec2Model ----
(***************************************************************************)
(* Time-series dashboard (frontend): the useTimeSeriesData hook, the App   *)
(* handlers, the TimeSeriesChart drag selection and the client-side        *)
(* arithmetic of TimeSeriesChart, BacktestResults and the stored-backtest  *)
(* table.                                                                  *)
(*                                                                         *)
(* Conventions.  A JavaScript string is a sequence of tokens; the token    *)
(* "T" is the character 'T' that separates the date part of an ISO         *)
(* timestamp from its time part.  The empty string '' is <<>>.  Array      *)
(* indices are 0-based as in the source; At(arr, i) reads arr[i].          *)
(* A JavaScript number is an exact rational [k |-> "num", n, d] or one of  *)
(* NaN, Infinity, -Infinity; undefined and null are the records Undefined  *)
(* and Null.  All handlers run to completion on one thread; the state      *)
(* updates a handler makes before its first await, and those a             *)
(* continuation makes after it, are each one atomic step.                  *)
(***************************************************************************)
EXTENDS Integers, Sequences, FiniteSets, TLC

(***************************************************************************)
(* Bounds of the model.                                                    *)
(***************************************************************************)
MaxLen == 3         \* longest series a data fetch returns
MaxWindows == 2     \* most windows in a backtest result
MaxWinLen == 2      \* longest array inside a backtest window
MaxInflight == 2    \* most calls of one selection panel fetch that await their answer
MaxLines == 3       \* most lines of a text given to MarkdownRenderer

\* num_events of a critical-events request
NumEvents == 10

(***************************************************************************)
(* JavaScript values.                                                      *)
(***************************************************************************)
Null == [k |-> "null"]
Undefined == [k |-> "undefined"]
NaN == [k |-> "NaN"]
Infinity == [k |-> "Infinity", neg |-> FALSE]

AbsInt(i) == IF i < 0 THEN -i ELSE i

RECURSIVE GCD(_, _)
GCD(a, b) == IF b = 0 THEN a ELSE GCD(b, a % b)

\* the rational n/d (d # 0) in lowest terms with a positive denominator
Rat(n, d) ==
  LET g == GCD(AbsInt(n), AbsInt(d))
      s == IF d < 0 THEN -1 ELSE 1
  IN  [k |-> "num", n |-> (s * n) \div g, d |-> (s * d) \div g]

Num(i) == [k |-> "num", n |-> i, d |-> 1]

IsNum(x) == x.k = "num"
IsInf(x) == x.k = "Infinity"

\* -1, 0 or 1 for a number or an infinity
Sign(x) ==
  IF IsInf(x) THEN (IF x.neg THEN -1 ELSE 1)
  ELSE IF ~IsNum(x) THEN 0
  ELSE IF x.n < 0 THEN -1 ELSE IF x.n > 0 THEN 1 ELSE 0

\* a + b
Add(a, b) ==
  IF IsNum(a) /\ IsNum(b) THEN Rat(a.n * b.d + b.n * a.d, a.d * b.d)
  ELSE IF IsInf(a) /\ IsInf(b) THEN (IF a.neg = b.neg THEN a ELSE NaN)
  ELSE IF IsInf(a) /\ IsNum(b) THEN a
  ELSE IF IsNum(a) /\ IsInf(b) THEN b
  ELSE NaN

\* -a
Neg(a) ==
  IF IsNum(a) THEN Rat(-a.n, a.d)
  ELSE IF IsInf(a) THEN [k |-> "Infinity", neg |-> ~a.neg]
  ELSE NaN

\* a - b
Sub(a, b) == Add(a, Neg(b))

\* a * b
Mul(a, b) ==
  IF IsNum(a) /\ IsNum(b) THEN Rat(a.n * b.n, a.d * b.d)
  ELSE IF (IsNum(a) \/ IsInf(a)) /\ (IsNum(b) \/ IsInf(b))
    THEN (IF Sign(a) * Sign(b) = 0 THEN NaN
          ELSE [k |-> "Infinity", neg |-> Sign(a) * Sign(b) < 0])
  ELSE NaN

\* a / b
Div(a, b) ==
  IF IsNum(a) /\ IsNum(b)
    THEN (IF b.n # 0 THEN Rat(a.n * b.d, a.d * b.n)
          ELSE IF a.n = 0 THEN NaN
          ELSE [k |-> "Infinity", neg |-> a.n < 0])
  ELSE IF IsInf(a) /\ IsNum(b)
    THEN [k |-> "Infinity", neg |-> (a.neg # (b.n < 0))]
  ELSE IF IsNum(a) /\ IsInf(b) THEN Num(0)
  ELSE NaN

\* Math.abs(a)
MathAbs(a) ==
  IF IsNum(a) THEN Rat(AbsInt(a.n), a.d)
  ELSE IF IsInf(a) THEN Infinity
  ELSE NaN

\* a >= 0 and a < b (every comparison with NaN or undefined is false)
GeZero(a) == (IsNum(a) \/ IsInf(a)) /\ Sign(a) >= 0
Less(a, b) ==
  (IsNum(a) \/ IsInf(a)) /\ (IsNum(b) \/ IsInf(b)) /\ a # b /\ Sign(Sub(a, b)) < 0

RECURSIVE Pow10(_)
Pow10(e) == IF e = 0 THEN 1 ELSE 10 * Pow10(e - 1)

\* x.toFixed(digits): the sign and the magnitude in units of 10^-digits,
\* rounded to the nearest unit (halves away from zero); "NaN" and
\* "Infinity" for the non-finite values
ToFixed(x, digits) ==
  IF IsNum(x)
    THEN [text |-> "digits", minus |-> x.n < 0,
          units |-> (2 * AbsInt(x.n) * Pow10(digits) + x.d) \div (2 * x.d)]
  ELSE IF IsInf(x) THEN [text |-> "Infinity", minus |-> x.neg, units |-> 0]
  ELSE [text |-> "NaN", minus |-> FALSE, units |-> 0]

\* arr[i] for a 0-based index: undefined outside the array
At(arr, i) == IF i >= 0 /\ i < Len(arr) THEN arr[i + 1] ELSE Undefined

\* arr.findIndex(d => d.timestamp === label): first match or -1
RECURSIVE FindFrom(_, _, _)
FindFrom(arr, label, i) ==
  IF i >= Len(arr) THEN -1
  ELSE IF arr[i + 1].timestamp = label THEN i
  ELSE FindFrom(arr, label, i + 1)

FindIndex(arr, label) == FindFrom(arr, label, 0)

\* s.split('T')[0]: the tokens before the first 'T'
RECURSIVE SplitT0(_)
SplitT0(s) ==
  IF s = <<>> \/ Head(s) = "T" THEN <<>>
  ELSE <<Head(s)>> \o SplitT0(Tail(s))

\* a JavaScript string value, where the variable can also hold null
Str(s) == [k |-> "string", s |-> s]

\* truthiness of a nullable string: neither null nor ''
Truthy(v) == v.k = "string" /\ v.s # <<>>

(***************************************************************************)
(* Dates.  A date string is a token sequence: an ISO date token, alone or  *)
(* followed by 'T' and a time token, is what parseISO reads; a few other   *)
(* texts are read by the Date constructor only; every other text is read   *)
(* by neither.                                                             *)
(***************************************************************************)
DateTokens == {"d1", "d2", "d3"}
TimeTokens == {"t0", "t1"}

\* the texts the Date constructor reads and parseISO does not
LegacyDates == {<<"Jan 5, 2024">>}

InvalidDate == [k |-> "InvalidDate"]

\* isNaN(date.getTime())
IsInvalid(date) == date.k = "InvalidDate"

\* parseISO(s): a Date for an ISO text, Invalid Date for every other text
parseISO(s) ==
  IF Len(s) = 1 /\ s[1] \in DateTokens
    THEN [k |-> "Date", day |-> s[1], time |-> "t0"]
  ELSE IF Len(s) = 3 /\ s[1] \in DateTokens /\ s[2] = "T" /\ s[3] \in TimeTokens
    THEN [k |-> "Date", day |-> s[1], time |-> s[3]]
  ELSE InvalidDate

\* new Date(s): reads what parseISO reads and the legacy texts
NewDate(s) ==
  IF ~IsInvalid(parseISO(s)) THEN parseISO(s)
  ELSE IF s \in LegacyDates THEN [k |-> "Date", day |-> "d1", time |-> "t0"]
  ELSE InvalidDate

\* format(date, pattern) of a valid date: the text of its day in that
\* pattern (format throws a RangeError for Invalid Date)
format(date, pattern) == <<pattern, "of", date.day>>

\* formatOrRaw that shows every text, readable or not, as a formatted date
formatOrRaw_alwaysFormats(s, pattern) ==
  format([k |-> "Date", day |-> "d1", time |-> "t0"], pattern)

\* try { return format(parseISO(s), pattern) } catch { return s }
formatOrRaw(s, pattern) ==
  IF IsInvalid(parseISO(s)) THEN s ELSE format(parseISO(s), pattern)

(***************************************************************************)
(* What the data services can answer, within the bounds.                   *)
(***************************************************************************)
SeqsUpTo(S, n) == UNION {[1..m -> S] : m \in 0..n}

\* timestamps a service returns, in chronological order: a bare date, two
\* times of one date, a later date
TimestampPool ==
  << <<"d1">>, <<"d2", "T", "t0">>, <<"d2", "T", "t1">>, <<"d3", "T", "t0">> >>

\* the chronologically ordered timestamp arrays of at most n entries
TimestampArrays(n) ==
  { [i \in 1..Len(ix) |-> TimestampPool[ix[i]]] :
      ix \in { s \in SeqsUpTo(1..Len(TimestampPool), n) :
                 \A i \in 1..(Len(s) - 1) : s[i] < s[i + 1] } }

\* the values a data endpoint returns with n timestamps
ValuePattern == <<100, 110, 90, 100>>

\* what a data endpoint answers: aligned timestamps and values, and the
\* fields the crypto, forex and Haver loaders read
FetchResults ==
  { [timestamps |-> ts, values |-> [i \in 1..Len(ts) |-> ValuePattern[i]],
     ticker |-> <<"BTC", "-", "USD">>, currency |-> Str(<<"USD">>),
     base_currency |-> <<"EUR">>, quote_currency |-> <<"USD">>] :
      ts \in TimestampArrays(MaxLen) }

\* what a rejected request throws: an Error with a message, or another value
Thrown == {[isError |-> TRUE, message |-> <<"Network Error">>],
           [isError |-> FALSE, message |-> <<>>]}

\* the requests DataSourceSelector.handleSubmit can emit
DataRequests ==
  {[kind |-> "yahoo", symbol |-> <<"NVDA">>, database |-> <<>>],
   [kind |-> "haver", symbol |-> <<"GDP">>, database |-> <<"USECON">>],
   [kind |-> "crypto", symbol |-> <<"BTC">>, database |-> <<>>],
   [kind |-> "forex", symbol |-> <<"EURUSD">>, database |-> <<>>]}

Queries == {<<"why">>}

SearchAnswers == {[run_id |-> "r1", status |-> "completed"]}

\* backtest results the service answers while the dashboard runs
BacktestAnswers ==
  {[windows |-> <<>>, mape |-> Num(5), mae |-> Num(1),
    cutoff_date |-> TimestampPool[1]],
   [windows |-> <<[actual_values |-> <<4>>, forecast_values |-> <<3>>,
                   timestamps |-> <<TimestampPool[2]>>,
                   history_start |-> TimestampPool[1],
                   history_end |-> TimestampPool[1],
                   target_start |-> TimestampPool[2],
                   target_end |-> TimestampPool[2]]>>,
    mape |-> Num(25), mae |-> Num(1), cutoff_date |-> TimestampPool[1]]}

(***************************************************************************)
(* State.                                                                  *)
(***************************************************************************)
VARIABLES
  data, loading, error, ticker, currency, selectedRange, \* useTimeSeriesData
  dataInflight,       \* data fetches that await their answer
  refAreaLeft, refAreaRight, isDragging,                 \* TimeSeriesChart
  searchResult, searchLoading, searchError,              \* App
  backtestResult, backtestLoading, backtestError,
  searchInflight,     \* search requests that await their answer
  backtestInflight,   \* backtest requests that await their answer
  brushRange, criticalEventsResult, criticalEventsLoading,
  criticalEventsError, showEventMarkers,
  eventsInflight,     \* critical-events requests that await their answer
  dataSource, yahooTicker, selectedCrypto, selectedForexPair, \* DataSourceSelector
  selectedDatabase, seriesList, selectedSeries, loadingSeries,
  seriesInflight,     \* fetchHaverSeries calls that await their answer, oldest first
  assetClass, summaries, selectedSymbol, detail,         \* PerformanceDashboard
  summariesLoading, summariesError, detailLoading, detailError,
  summariesInflight,  \* fetchStoredBacktests calls, oldest first
  detailInflight,     \* fetchStoredBacktestDetail calls, oldest first
  view,               \* what the last render computed
  rangeCall,          \* the call of onRangeChange the last step made, if any
  applied             \* the response the last step applied, if any

hookVars == <<data, loading, error, ticker, currency, selectedRange, dataInflight>>
chartVars == <<refAreaLeft, refAreaRight, isDragging>>
searchVars == <<searchResult, searchLoading, searchError, searchInflight>>
backtestVars == <<backtestResult, backtestLoading, backtestError, backtestInflight>>
eventsVars == <<brushRange, criticalEventsResult, criticalEventsLoading,
                criticalEventsError, showEventMarkers, eventsInflight>>
sourceVars == <<dataSource, yahooTicker, selectedCrypto, selectedForexPair>>
selectorVars == <<sourceVars, selectedDatabase, seriesList, selectedSeries,
                  loadingSeries, seriesInflight>>
dashboardVars == <<assetClass, summaries, selectedSymbol, detail, summariesLoading,
                   summariesError, detailLoading, detailError, summariesInflight,
                   detailInflight>>
panelVars == <<selectorVars, dashboardVars>>
vars == <<hookVars, chartVars, searchVars, backtestVars, eventsVars, panelVars,
          view, rangeCall, applied>>

NoView == [component |-> "none"]
NoCall == [called |-> FALSE]
NoResponse == [kind |-> "none"]

Init ==
  /\ data = <<>>
  /\ loading = FALSE
  /\ error = Null
  /\ ticker = <<>>
  /\ currency = Null
  /\ selectedRange = Null
  /\ dataInflight = {}
  /\ refAreaLeft = Null
  /\ refAreaRight = Null
  /\ isDragging = FALSE
  /\ searchResult = Null
  /\ searchLoading = FALSE
  /\ searchError = Null
  /\ backtestResult = Null
  /\ backtestLoading = FALSE
  /\ backtestError = Null
  /\ searchInflight = {}
  /\ backtestInflight = {}
  /\ brushRange = Null
  /\ criticalEventsResult = Null
  /\ criticalEventsLoading = FALSE
  /\ criticalEventsError = Null
  /\ showEventMarkers = FALSE
  /\ eventsInflight = {}
  /\ dataSource = "yahoo"
  /\ yahooTicker = <<"NVDA">>
  /\ selectedCrypto = <<"BTC">>
  /\ selectedForexPair = <<"EURUSD">>
  /\ selectedDatabase = <<>>
  /\ seriesList = <<>>
  /\ selectedSeries = <<>>
  /\ loadingSeries = FALSE
  /\ seriesInflight = <<>>
  /\ assetClass = "sp500"
  /\ summaries = <<>>
  /\ selectedSymbol = Null
  /\ summariesLoading = FALSE
  /\ summariesError = Null
  /\ detailLoading = FALSE
  /\ detailError = Null
  /\ summariesInflight = <<>>
  /\ detailInflight = <<>>
  /\ detail = Null
  /\ view = NoView
  /\ rangeCall = NoCall
  /\ applied = NoResponse

(***************************************************************************)
(* useTimeSeriesData.                                                      *)
(***************************************************************************)
\* transformData(timestamps, values): one point per timestamp
\* formattedDate of one timestamp: parseISO, then the Date constructor, then
\* the raw text; formattedDate || timestamp
formattedDate(timestamp) ==
  LET date == IF IsInvalid(parseISO(timestamp)) THEN NewDate(timestamp)
              ELSE parseISO(timestamp)
      formatted == IF IsInvalid(date) THEN timestamp
                   ELSE format(date, "MMM d, yyyy")
  IN IF formatted # <<>> THEN formatted ELSE timestamp

\* transformData that pairs the timestamps with the values in reverse order
transformData_reversedValues(timestamps, values) ==
  [i \in 1..Len(timestamps) |->
     [date |-> timestamps[i], timestamp |-> timestamps[i],
      value |-> Num(values[Len(values) + 1 - i]),
      formattedDate |-> formattedDate(timestamps[i])]]

transformData(timestamps, values) ==
  [i \in 1..Len(timestamps) |->
     [date |-> timestamps[i], timestamp |-> timestamps[i],
      value |-> IF i <= Len(values) THEN Num(values[i]) ELSE Undefined,
      formattedDate |-> formattedDate(timestamps[i])]]

\* ErrorMessage that shows the fallback text for every failure
ErrorMessage_fallbackOnly(thrown, fallback) == Str(fallback)

\* err instanceof Error ? err.message : fallback
ErrorMessage(thrown, fallback) ==
  IF thrown.isError THEN Str(thrown.message) ELSE Str(fallback)

\* v || null for a nullable string
OrNull(v) == IF Truthy(v) THEN v ELSE Null

\* the ticker and the currency each loader sets on success
LoadedTicker(req, result) ==
  CASE req.kind = "yahoo" -> req.symbol
    [] req.kind = "haver" -> req.symbol \o <<"@">> \o req.database
    [] req.kind = "crypto" -> result.ticker
    [] req.kind = "forex" -> result.base_currency \o <<"/">> \o result.quote_currency

LoadedCurrency(req, result) ==
  CASE req.kind = "yahoo" -> Null
    [] req.kind = "haver" -> OrNull(result.currency)
    [] req.kind = "crypto" -> result.currency
    [] req.kind = "forex" -> Str(result.quote_currency)

\* loadYahooData / loadHaverData / loadCryptoData / loadForexData up to the
\* await; the submit buttons are disabled while loading
LoadData(req) ==
  /\ rangeCall' = NoCall
  /\ applied' = NoResponse
  /\ ~loading
  /\ loading' = TRUE
  /\ error' = Null
  /\ selectedRange' = Null
  /\ dataInflight' = dataInflight \cup {req}
  /\ UNCHANGED <<data, ticker, currency>>
  /\ UNCHANGED <<chartVars, searchVars, backtestVars, eventsVars, panelVars, view>>

\* the effect App runs after every change of data: the brush range becomes
\* the whole series unless its dates are already those, and the critical
\* events are dropped; an empty series only clears the brush range
dataEffect(newData) ==
  IF Len(newData) > 0
    THEN LET newBrushRange ==
               [startDate |-> SplitT0(newData[1].timestamp),
                endDate |-> SplitT0(newData[Len(newData)].timestamp),
                startIndex |-> 0,
                endIndex |-> Len(newData) - 1]
         IN  /\ brushRange' =
                  IF brushRange = Null
                       \/ brushRange.startDate # newBrushRange.startDate
                       \/ brushRange.endDate # newBrushRange.endDate
                    THEN newBrushRange
                    ELSE brushRange
             /\ criticalEventsResult' = Null
             /\ criticalEventsError' = Null
             /\ showEventMarkers' = FALSE
             /\ UNCHANGED <<criticalEventsLoading, eventsInflight>>
    ELSE /\ brushRange' = Null
         /\ UNCHANGED <<criticalEventsResult, criticalEventsLoading,
                        criticalEventsError, showEventMarkers, eventsInflight>>

\* the fetch resolved: the try block after the await, then finally
LoadResolved(req, result) ==
  /\ rangeCall' = NoCall
  /\ applied' = [kind |-> "data", request |-> req, response |-> result]
  /\ req \in dataInflight
  /\ dataInflight' = dataInflight \ {req}
  /\ data' = transformData(result.timestamps, result.values)
  /\ ticker' = LoadedTicker(req, result)
  /\ currency' = LoadedCurrency(req, result)
  /\ loading' = FALSE
  /\ UNCHANGED <<error, selectedRange>>
  /\ dataEffect(data')
  /\ UNCHANGED <<chartVars, searchVars, backtestVars, panelVars, view>>

\* the fetch rejected: the catch block, then finally
LoadRejected(req, thrown) ==
  /\ rangeCall' = NoCall
  /\ applied' = [kind |-> "data", request |-> req, thrown |-> thrown]
  /\ req \in dataInflight
  /\ dataInflight' = dataInflight \ {req}
  /\ error' = ErrorMessage(thrown, <<"Failed to fetch data">>)
  /\ data' = <<>>
  /\ currency' = Null
  /\ loading' = FALSE
  /\ UNCHANGED <<ticker, selectedRange>>
  /\ dataEffect(data')
  /\ UNCHANGED <<chartVars, searchVars, backtestVars, panelVars, view>>

(***************************************************************************)
(* App: handleRangeChange, handleSearch, handleBacktest.                   *)
(***************************************************************************)
\* handleRangeChange that keeps the results of the previous range
handleRangeChange_keepsResults(range) ==
  /\ selectedRange' = range
  /\ UNCHANGED <<searchResult, searchError, backtestResult, backtestError>>

\* handleRangeChange(range): the updates it makes, as a predicate on the step
handleRangeChange(range) ==
  /\ selectedRange' = range
  /\ searchResult' = Null
  /\ searchError' = Null
  /\ backtestResult' = Null
  /\ backtestError' = Null

\* the change_description handleSearch builds, undefined when an end of the
\* range has no value
changeDescription(series, range) ==
  LET startValue == IF At(series, range.startIndex) = Undefined THEN Undefined
                    ELSE At(series, range.startIndex).value
      endValue == IF At(series, range.endIndex) = Undefined THEN Undefined
                  ELSE At(series, range.endIndex).value
      change == Sub(endValue, startValue)
  IN  IF startValue # Undefined /\ endValue # Undefined
        THEN [word |-> IF GeZero(change) THEN "increased" ELSE "decreased",
              amount |-> ToFixed(MathAbs(change), 2),
              plus |-> GeZero(change),
              percent |-> ToFixed(Mul(Div(change, startValue), Num(100)), 2)]
        ELSE Undefined

\* handleSearch(searchQuery) up to the await; the Search button is disabled
\* while a search is loading
handleSearch(searchQuery) ==
  /\ rangeCall' = NoCall
  /\ applied' = NoResponse
  /\ selectedRange # Null
  /\ ticker # <<>>
  /\ ~searchLoading
  /\ searchLoading' = TRUE
  /\ searchError' = Null
  /\ searchResult' = Null
  /\ searchInflight' = searchInflight \cup
       {[ticker |-> ticker, query |-> searchQuery,
         start_date |-> selectedRange.startDate,
         end_date |-> selectedRange.endDate,
         change_description |-> changeDescription(data, selectedRange)]}
  /\ UNCHANGED <<hookVars, chartVars, backtestVars, eventsVars, panelVars, view>>

\* SearchResolved that also discards the backtest result
SearchResolved_clearsBacktest(req, result) ==
  /\ rangeCall' = NoCall
  /\ applied' = [kind |-> "search", request |-> req, response |-> result]
  /\ req \in searchInflight
  /\ searchInflight' = searchInflight \ {req}
  /\ searchResult' = result
  /\ searchLoading' = FALSE
  /\ backtestResult' = Null
  /\ UNCHANGED <<backtestLoading, backtestError, backtestInflight>>
  /\ UNCHANGED <<searchError, hookVars, chartVars, eventsVars, panelVars, view>>

\* handleSearch after the await: the response is stored
SearchResolved(req, result) ==
  /\ rangeCall' = NoCall
  /\ applied' = [kind |-> "search", request |-> req, response |-> result]
  /\ req \in searchInflight
  /\ searchInflight' = searchInflight \ {req}
  /\ searchResult' = result
  /\ searchLoading' = FALSE
  /\ UNCHANGED <<searchError, hookVars, chartVars, backtestVars, eventsVars, panelVars, view>>

\* SearchRejected without the finally block: the loading flag stays set
SearchRejected_keepsLoading(req, thrown) ==
  /\ rangeCall' = NoCall
  /\ applied' = [kind |-> "search", request |-> req, thrown |-> thrown]
  /\ req \in searchInflight
  /\ searchInflight' = searchInflight \ {req}
  /\ searchError' = ErrorMessage(thrown, <<"Search failed">>)
  /\ UNCHANGED <<searchLoading, searchResult, hookVars, chartVars, backtestVars,
                 eventsVars, panelVars, view>>

\* handleSearch after the await rejected: the catch block, then finally
SearchRejected(req, thrown) ==
  /\ rangeCall' = NoCall
  /\ applied' = [kind |-> "search", request |-> req, thrown |-> thrown]
  /\ req \in searchInflight
  /\ searchInflight' = searchInflight \ {req}
  /\ searchError' = ErrorMessage(thrown, <<"Search failed">>)
  /\ searchLoading' = FALSE
  /\ UNCHANGED <<searchResult, hookVars, chartVars, backtestVars, eventsVars, panelVars, view>>

\* handleBacktest up to the await; the Run Backtest button is disabled while
\* a backtest is loading
handleBacktest_keepsError ==
  /\ rangeCall' = NoCall
  /\ applied' = NoResponse
  /\ selectedRange # Null
  /\ ticker # <<>>
  /\ Len(data) # 0
  /\ ~backtestLoading
  /\ backtestLoading' = TRUE
  /\ backtestResult' = Null
  /\ backtestInflight' = backtestInflight \cup
       {[ticker |-> ticker,
         timestamps |-> [i \in 1..Len(data) |-> data[i].timestamp],
         values |-> [i \in 1..Len(data) |-> data[i].value],
         start_date |-> selectedRange.startDate,
         end_date |-> selectedRange.endDate]}
  /\ UNCHANGED <<hookVars, chartVars, searchVars, eventsVars, panelVars, view,
                 backtestError>>

handleBacktest ==
  /\ rangeCall' = NoCall
  /\ applied' = NoResponse
  /\ selectedRange # Null
  /\ ticker # <<>>
  /\ Len(data) # 0
  /\ ~backtestLoading
  /\ backtestLoading' = TRUE
  /\ backtestError' = Null
  /\ backtestResult' = Null
  /\ backtestInflight' = backtestInflight \cup
       {[ticker |-> ticker,
         timestamps |-> [i \in 1..Len(data) |-> data[i].timestamp],
         values |-> [i \in 1..Len(data) |-> data[i].value],
         start_date |-> selectedRange.startDate,
         end_date |-> selectedRange.endDate]}
  /\ UNCHANGED <<hookVars, chartVars, searchVars, eventsVars, panelVars, view>>

BacktestResolved(req, result) ==
  /\ rangeCall' = NoCall
  /\ applied' = [kind |-> "backtest", request |-> req, response |-> result]
  /\ req \in backtestInflight
  /\ backtestInflight' = backtestInflight \ {req}
  /\ backtestResult' = result
  /\ backtestLoading' = FALSE
  /\ UNCHANGED <<backtestError, hookVars, chartVars, searchVars, eventsVars, panelVars, view>>

BacktestRejected(req, thrown) ==
  /\ rangeCall' = NoCall
  /\ applied' = [kind |-> "backtest", request |-> req, thrown |-> thrown]
  /\ req \in backtestInflight
  /\ backtestInflight' = backtestInflight \ {req}
  /\ backtestError' = ErrorMessage(thrown, <<"Backtest failed">>)
  /\ backtestLoading' = FALSE
  /\ UNCHANGED <<backtestResult, hookVars, chartVars, searchVars, eventsVars, panelVars, view>>

(***************************************************************************)
(* App: the critical events of the visible (brush) range.                  *)
(***************************************************************************)
\* what the critical-events service answers to a request
EventsAnswers(req) ==
  {[ticker |-> req.ticker, events |-> <<>>],
   [ticker |-> req.ticker,
    events |-> <<[date |-> req.start_date, title |-> <<"event">>]>>]}

\* handleBrushChange(range): the updates it makes, as a predicate on the step
handleBrushChange_keepsMarkers(range) ==
  /\ brushRange' = range
  /\ criticalEventsResult' = Null
  /\ criticalEventsError' = Null
  /\ UNCHANGED showEventMarkers

handleBrushChange(range) ==
  /\ brushRange' = range
  /\ criticalEventsResult' = Null
  /\ criticalEventsError' = Null
  /\ showEventMarkers' = FALSE

\* the request of handleCriticalEvents with the dates of the drag-selected
\* range when there is one
eventsRequest_selectedRange ==
  [ticker |-> ticker,
   start_date |-> IF selectedRange # Null THEN selectedRange.startDate
                  ELSE brushRange.startDate,
   end_date |-> IF selectedRange # Null THEN selectedRange.endDate
                ELSE brushRange.endDate,
   num_events |-> NumEvents]

\* the request handleCriticalEvents sends
eventsRequest ==
  [ticker |-> ticker,
   start_date |-> brushRange.startDate,
   end_date |-> brushRange.endDate,
   num_events |-> NumEvents]

\* handleCriticalEvents up to the await; the button is disabled while the
\* events are loading
handleCriticalEvents ==
  /\ rangeCall' = NoCall
  /\ applied' = NoResponse
  /\ brushRange # Null
  /\ ticker # <<>>
  /\ ~criticalEventsLoading
  /\ criticalEventsLoading' = TRUE
  /\ criticalEventsError' = Null
  /\ criticalEventsResult' = Null
  /\ showEventMarkers' = FALSE
  /\ eventsInflight' = eventsInflight \cup {eventsRequest}
  /\ UNCHANGED brushRange
  /\ UNCHANGED <<hookVars, chartVars, searchVars, backtestVars, panelVars, view>>

EventsResolved(req, result) ==
  /\ rangeCall' = NoCall
  /\ req \in eventsInflight
  /\ eventsInflight' = eventsInflight \ {req}
  /\ criticalEventsResult' = result
  /\ showEventMarkers' = TRUE
  /\ criticalEventsLoading' = FALSE
  /\ applied' = [kind |-> "events", request |-> req, response |-> result]
  /\ UNCHANGED <<brushRange, criticalEventsError>>
  /\ UNCHANGED <<hookVars, chartVars, searchVars, backtestVars, panelVars, view>>

EventsRejected(req, thrown) ==
  /\ rangeCall' = NoCall
  /\ req \in eventsInflight
  /\ eventsInflight' = eventsInflight \ {req}
  /\ criticalEventsError' = ErrorMessage(thrown, <<"Critical events search failed">>)
  /\ criticalEventsLoading' = FALSE
  /\ applied' = [kind |-> "events", request |-> req, thrown |-> thrown]
  /\ UNCHANGED <<brushRange, criticalEventsResult, showEventMarkers>>
  /\ UNCHANGED <<hookVars, chartVars, searchVars, backtestVars, panelVars, view>>

\* the "Show on chart" checkbox of CriticalEventsList, rendered while a
\* result with events is shown
onToggleMarkers(checked) ==
  /\ rangeCall' = NoCall
  /\ applied' = NoResponse
  /\ ~criticalEventsLoading
  /\ criticalEventsError = Null
  /\ criticalEventsResult # Null
  /\ Len(criticalEventsResult.events) # 0
  /\ showEventMarkers' = checked
  /\ UNCHANGED <<brushRange, criticalEventsResult, criticalEventsLoading,
                 criticalEventsError, eventsInflight>>
  /\ UNCHANGED <<hookVars, chartVars, searchVars, backtestVars, panelVars, view>>

(***************************************************************************)
(* CriticalEventsList: the date badge of each event.                       *)
(***************************************************************************)
\* the try block of one event: formattedDate, monthStr and dayStr, and the
\* values of the catch block when format throws
eventDate(date) ==
  IF IsInvalid(parseISO(date))
    THEN [formattedDate |-> date, monthStr |-> <<"---">>, dayStr |-> <<"--">>]
    ELSE [formattedDate |-> format(parseISO(date), "MMM d, yyyy"),
          monthStr |-> format(parseISO(date), "MMM"),
          dayStr |-> format(parseISO(date), "d")]

\* one render of CriticalEventsList with the current props: each event has
\* its date and index as key, and its badge shows monthStr and dayStr
RenderCriticalEventsList ==
  /\ rangeCall' = NoCall
  /\ applied' = NoResponse
  /\ view' =
       IF criticalEventsLoading
         THEN [component |-> "CriticalEventsList", panel |-> "loading"]
       ELSE IF criticalEventsError # Null
         THEN [component |-> "CriticalEventsList", panel |-> "error",
               message |-> criticalEventsError]
       ELSE IF criticalEventsResult = Null
         THEN [component |-> "CriticalEventsList", panel |-> "none"]
       ELSE IF Len(criticalEventsResult.events) = 0
         THEN [component |-> "CriticalEventsList", panel |-> "none"]
       ELSE [component |-> "CriticalEventsList", panel |-> "result",
             ticker |-> criticalEventsResult.ticker,
             events |->
               [i \in 1..Len(criticalEventsResult.events) |->
                  [key |-> <<criticalEventsResult.events[i].date, i - 1>>,
                   monthStr |-> eventDate(criticalEventsResult.events[i].date).monthStr,
                   dayStr |-> eventDate(criticalEventsResult.events[i].date).dayStr,
                   title |-> criticalEventsResult.events[i].title]]]
  /\ UNCHANGED <<hookVars, chartVars, searchVars, backtestVars, eventsVars, panelVars>>

(***************************************************************************)
(* TimeSeriesChart: the brush.                                             *)
(***************************************************************************)
\* the brushData the Brush can pass to onChange: two indices of the series in
\* ascending order, or nothing
BrushData ==
  {Undefined} \cup
  { [startIndex |-> a, endIndex |-> b] :
      a \in 0..(Len(data) - 1), b \in 0..(Len(data) - 1) }

\* the range the Brush's onChange passes to onBrushChange
brushRangeOf(points, brushData) ==
  IF brushData # Undefined
    THEN [startDate |-> SplitT0(At(points, brushData.startIndex).timestamp),
          endDate |-> SplitT0(At(points, brushData.endIndex).timestamp),
          startIndex |-> brushData.startIndex,
          endIndex |-> brushData.endIndex]
    ELSE IF Len(points) > 0
      THEN [startDate |-> SplitT0(points[1].timestamp),
            endDate |-> SplitT0(points[Len(points)].timestamp),
            startIndex |-> 0,
            endIndex |-> Len(points) - 1]
      ELSE Null

\* the Brush's onChange
onBrushChange(brushData) ==
  /\ rangeCall' = NoCall
  /\ applied' = NoResponse
  /\ Len(data) # 0
  /\ brushData # Undefined => brushData.startIndex <= brushData.endIndex
  /\ handleBrushChange(brushRangeOf(data, brushData))
  /\ UNCHANGED <<criticalEventsLoading, eventsInflight>>
  /\ UNCHANGED <<hookVars, chartVars, searchVars, backtestVars, panelVars, view>>

(***************************************************************************)
(* TimeSeriesChart: drag selection.  The LineChart, and with it the mouse  *)
(* handlers, is rendered only while the series is non-empty; the label of  *)
(* a mouse event is the timestamp of the point under the pointer, or       *)
(* absent.                                                                 *)
(***************************************************************************)
\* e.activeLabel of the events the chart can deliver
ActiveLabels == {Str(data[i].timestamp) : i \in 1..Len(data)} \cup {Undefined}

onMouseDown(activeLabel) ==
  /\ rangeCall' = NoCall
  /\ applied' = NoResponse
  /\ Len(data) # 0
  /\ IF Truthy(activeLabel)
       THEN /\ refAreaLeft' = activeLabel
            /\ isDragging' = TRUE
            /\ refAreaRight' = activeLabel
       ELSE UNCHANGED chartVars
  /\ UNCHANGED <<hookVars, searchVars, backtestVars, eventsVars, panelVars, view>>

onMouseMove(activeLabel) ==
  /\ rangeCall' = NoCall
  /\ applied' = NoResponse
  /\ Len(data) # 0
  /\ IF isDragging /\ Truthy(refAreaLeft) /\ Truthy(activeLabel)
       THEN refAreaRight' = activeLabel
       ELSE UNCHANGED refAreaRight
  /\ UNCHANGED <<refAreaLeft, isDragging>>
  /\ UNCHANGED <<hookVars, searchVars, backtestVars, eventsVars, panelVars, view>>

\* dragIndices without the swap of a backward drag
dragIndices_noSwap(series, left, right) ==
  <<FindIndex(series, left.s), FindIndex(series, right.s)>>

\* the two indices onMouseUp looks up, swapped into ascending order
dragIndices(series, left, right) ==
  LET leftIndex == FindIndex(series, left.s)
      rightIndex == FindIndex(series, right.s)
  IN  IF leftIndex > rightIndex THEN <<rightIndex, leftIndex>>
      ELSE <<leftIndex, rightIndex>>

\* dragRange with rightIndex - leftIndex >= 0 as the test: a drag that ends
\* on the point it started on selects that point
dragRange_keepsPoint(series, left, right) ==
  LET ix == dragIndices(series, left, right)
  IN  IF ix[2] - ix[1] >= 0 /\ ix[1] >= 0
        THEN [startDate |-> SplitT0(At(series, ix[1]).timestamp),
              endDate |-> SplitT0(At(series, ix[2]).timestamp),
              startIndex |-> ix[1],
              endIndex |-> ix[2]]
        ELSE Null

\* the range onMouseUp passes to onRangeChange: a DateRange, or null when the
\* two indices coincide
dragRange(series, left, right) ==
  LET ix == dragIndices(series, left, right)
  IN  IF ix[2] - ix[1] > 0
        THEN [startDate |-> SplitT0(At(series, ix[1]).timestamp),
              endDate |-> SplitT0(At(series, ix[2]).timestamp),
              startIndex |-> ix[1],
              endIndex |-> ix[2]]
        ELSE Null

\* onMouseUp reads startPoint.timestamp of an undefined startPoint when one
\* label is not in the series and the other is: a TypeError
dragThrows(series, left, right) ==
  LET ix == dragIndices(series, left, right)
  IN  ix[2] - ix[1] > 0 /\ (At(series, ix[1]) = Undefined \/ At(series, ix[2]) = Undefined)

\* onMouseUp; a TypeError leaves the handler before any update is made.
\* rangeCall records the call of onRangeChange: its argument, the two indices
\* found for the drag's start and end labels, and the range it replaced
onMouseUp ==
  /\ Len(data) # 0
  /\ IF isDragging /\ Truthy(refAreaLeft) /\ Truthy(refAreaRight)
       THEN IF dragThrows(data, refAreaLeft, refAreaRight)
              THEN /\ rangeCall' = NoCall
                   /\ UNCHANGED <<chartVars, selectedRange, searchResult, searchError,
                                  backtestResult, backtestError>>
              ELSE /\ handleRangeChange(dragRange(data, refAreaLeft, refAreaRight))
                   /\ rangeCall' = [called |-> TRUE,
                                    range |-> dragRange(data, refAreaLeft, refAreaRight),
                                    leftIndex |-> FindIndex(data, refAreaLeft.s),
                                    rightIndex |-> FindIndex(data, refAreaRight.s),
                                    previous |-> selectedRange]
                   /\ refAreaLeft' = Null
                   /\ refAreaRight' = Null
                   /\ isDragging' = FALSE
       ELSE /\ rangeCall' = NoCall
            /\ refAreaLeft' = Null
            /\ refAreaRight' = Null
            /\ isDragging' = FALSE
            /\ UNCHANGED <<selectedRange, searchResult, searchError,
                           backtestResult, backtestError>>
  /\ UNCHANGED <<data, loading, error, ticker, currency, dataInflight>>
  /\ UNCHANGED <<searchLoading, searchInflight, backtestLoading, backtestInflight>>
  /\ applied' = NoResponse
  /\ UNCHANGED <<eventsVars, panelVars, view>>

(***************************************************************************)
(* TimeSeriesChart: what a render computes from its props.                 *)
(***************************************************************************)
\* data[i]?.value
ValueAt(series, i) ==
  IF At(series, i) = Undefined THEN Undefined ELSE At(series, i).value

\* rangeStats with the percentage taken of the end value
rangeStats_ofEndValue(series, range) ==
  IF range = Null \/ Len(series) = 0 THEN Null
  ELSE LET startValue == ValueAt(series, range.startIndex)
           endValue == ValueAt(series, range.endIndex)
           change == Sub(endValue, startValue)
           changePercent == Mul(Div(change, endValue), Num(100))
       IN  IF startValue = Undefined \/ endValue = Undefined THEN Null
           ELSE [startValue |-> startValue, endValue |-> endValue,
                 change |-> change, changePercent |-> changePercent]

\* the rangeStats memo
rangeStats(series, range) ==
  IF range = Null \/ Len(series) = 0 THEN Null
  ELSE LET startValue == ValueAt(series, range.startIndex)
           endValue == ValueAt(series, range.endIndex)
           change == Sub(endValue, startValue)
           changePercent == Mul(Div(change, startValue), Num(100))
       IN  IF startValue = Undefined \/ endValue = Undefined THEN Null
           ELSE [startValue |-> startValue, endValue |-> endValue,
                 change |-> change, changePercent |-> changePercent]

\* the "Selected ... Change" block of the header: null when it is not shown
rangeHeader(series, range) ==
  LET stats == rangeStats(series, range)
  IN  IF Len(series) # 0 /\ range # Null /\ stats # Null
        THEN [startDate |-> range.startDate, endDate |-> range.endDate,
              plus |-> GeZero(stats.change),
              percent |-> ToFixed(stats.changePercent, 2)]
        ELSE Null

\* formatXAxis of TimeSeriesChart: the tick label of a timestamp
formatXAxis(timestamp) == formatOrRaw(timestamp, "MMM yyyy")

\* one render of TimeSeriesChart with the current data and selectedRange
RenderChart ==
  /\ rangeCall' = NoCall
  /\ applied' = NoResponse
  /\ view' = [component |-> "TimeSeriesChart",
              ticks |-> [i \in 1..Len(data) |->
                           formatXAxis(data[i].timestamp)],
              rangeStats |-> rangeStats(data, selectedRange),
              header |-> rangeHeader(data, selectedRange)]
  /\ UNCHANGED <<hookVars, chartVars, searchVars, backtestVars, eventsVars, panelVars>>

(***************************************************************************)
(* DataSourceSelector: the Haver database and series selection.  The       *)
(* database select is never disabled, so several fetchHaverSeries calls    *)
(* can await their answers together.                                       *)
(***************************************************************************)
\* the databases of the select, and the series list the service holds for each
Databases == {<<"USECON">>, <<"G10">>}

SeriesOf(db) ==
  IF db = <<"USECON">> THEN <<[name |-> <<"GDP">>], [name |-> <<"CPI">>]>>
  ELSE <<[name |-> <<"FXEUR">>]>>

\* arr without its entry i (1-based)
RemoveAt(arr, i) == SubSeq(arr, 1, i - 1) \o SubSeq(arr, i + 1, Len(arr))

\* the select's onChange with another value, then the effect on
\* selectedDatabase: loadSeriesForDatabase up to the await
SelectDatabase(db) ==
  /\ rangeCall' = NoCall
  /\ applied' = NoResponse
  /\ db # selectedDatabase
  /\ selectedDatabase' = db
  /\ IF db # <<>>
       THEN /\ Len(seriesInflight) < MaxInflight
            /\ loadingSeries' = TRUE
            /\ seriesList' = <<>>
            /\ selectedSeries' = <<>>
            /\ seriesInflight' = Append(seriesInflight, db)
       ELSE UNCHANGED <<loadingSeries, seriesList, selectedSeries, seriesInflight>>
  /\ UNCHANGED <<sourceVars, hookVars, chartVars, searchVars, backtestVars, eventsVars,
                 dashboardVars, view>>

\* SeriesResolved that drops the answer of a call that is not the latest one
SeriesResolved_latestOnly(i) ==
  /\ rangeCall' = NoCall
  /\ i \in 1..Len(seriesInflight)
  /\ seriesList' = IF i = Len(seriesInflight) THEN SeriesOf(seriesInflight[i])
                   ELSE seriesList
  /\ loadingSeries' = (i # Len(seriesInflight))
  /\ seriesInflight' = RemoveAt(seriesInflight, i)
  /\ applied' = [kind |-> "series", request |-> seriesInflight[i], position |-> i,
                 response |-> SeriesOf(seriesInflight[i])]
  /\ UNCHANGED <<selectedDatabase, selectedSeries>>
  /\ UNCHANGED <<sourceVars, hookVars, chartVars, searchVars, backtestVars, eventsVars,
                 dashboardVars, view>>

\* loadSeriesForDatabase: the answer to the call at position i arrived
SeriesResolved(i) ==
  /\ rangeCall' = NoCall
  /\ i \in 1..Len(seriesInflight)
  /\ seriesList' = SeriesOf(seriesInflight[i])
  /\ loadingSeries' = FALSE
  /\ seriesInflight' = RemoveAt(seriesInflight, i)
  /\ applied' = [kind |-> "series", request |-> seriesInflight[i], position |-> i,
                 response |-> SeriesOf(seriesInflight[i])]
  /\ UNCHANGED <<selectedDatabase, selectedSeries>>
  /\ UNCHANGED <<sourceVars, hookVars, chartVars, searchVars, backtestVars, eventsVars,
                 dashboardVars, view>>

\* loadSeriesForDatabase: the call at position i failed; it is only logged
SeriesRejected(i) ==
  /\ rangeCall' = NoCall
  /\ applied' = NoResponse
  /\ i \in 1..Len(seriesInflight)
  /\ loadingSeries' = FALSE
  /\ seriesInflight' = RemoveAt(seriesInflight, i)
  /\ UNCHANGED <<selectedDatabase, seriesList, selectedSeries>>
  /\ UNCHANGED <<sourceVars, hookVars, chartVars, searchVars, backtestVars, eventsVars,
                 dashboardVars, view>>

\* a click on a series of the list, shown while no list is loading
SelectSeries(i) ==
  /\ rangeCall' = NoCall
  /\ applied' = NoResponse
  /\ selectedDatabase # <<>>
  /\ ~loadingSeries
  /\ i \in 1..Len(seriesList)
  /\ selectedSeries' = seriesList[i].name
  /\ UNCHANGED <<selectedDatabase, seriesList, loadingSeries, seriesInflight>>
  /\ UNCHANGED <<sourceVars, hookVars, chartVars, searchVars, backtestVars, eventsVars,
                 dashboardVars, view>>

(***************************************************************************)
(* DataSourceSelector: the source tabs, their inputs and handleSubmit.     *)
(* The option lists of the tabs are those the services answered.  A text   *)
(* the user types is a sequence of tokens, " " for white space.            *)
(***************************************************************************)
Sources == {"yahoo", "haver", "crypto", "forex"}
YahooInputs == {<<>>, <<" ">>, <<"NVDA">>, <<" ", "nvda", " ">>}
CryptoSymbols == {<<"BTC">>, <<"ETH">>}
ForexPairs == {<<"EURUSD">>, <<"GBPUSD">>}

\* the line terminators a string token can be: a carriage return inside a
\* line (the text is split at the line feeds)
LineTerminators == {"\r"}

\* what trim() strips and the regular expression class \s matches
WhiteSpace == {" "} \cup LineTerminators

\* s.trim()
RECURSIVE TrimStart(_)
TrimStart(s) == IF s # <<>> /\ Head(s) \in WhiteSpace THEN TrimStart(Tail(s)) ELSE s

RECURSIVE TrimEnd(_)
TrimEnd(s) ==
  IF s # <<>> /\ s[Len(s)] \in WhiteSpace
    THEN TrimEnd(SubSeq(s, 1, Len(s) - 1))
    ELSE s

Trim(s) == TrimEnd(TrimStart(s))

\* s.toUpperCase()
ToUpperCase(s) == [i \in 1..Len(s) |-> IF s[i] = "nvda" THEN "NVDA" ELSE s[i]]

\* the tab buttons and the inputs of the tabs
setDataSource(source) ==
  /\ rangeCall' = NoCall
  /\ applied' = NoResponse
  /\ dataSource' = source
  /\ UNCHANGED <<yahooTicker, selectedCrypto, selectedForexPair, selectedDatabase,
                 seriesList, selectedSeries, loadingSeries, seriesInflight>>
  /\ UNCHANGED <<hookVars, chartVars, searchVars, backtestVars, eventsVars,
                 dashboardVars, view>>

setYahooTicker(text) ==
  /\ rangeCall' = NoCall
  /\ applied' = NoResponse
  /\ dataSource = "yahoo"
  /\ yahooTicker' = text
  /\ UNCHANGED <<dataSource, selectedCrypto, selectedForexPair, selectedDatabase,
                 seriesList, selectedSeries, loadingSeries, seriesInflight>>
  /\ UNCHANGED <<hookVars, chartVars, searchVars, backtestVars, eventsVars,
                 dashboardVars, view>>

setSelectedCrypto(symbol) ==
  /\ rangeCall' = NoCall
  /\ applied' = NoResponse
  /\ dataSource = "crypto"
  /\ selectedCrypto' = symbol
  /\ UNCHANGED <<dataSource, yahooTicker, selectedForexPair, selectedDatabase,
                 seriesList, selectedSeries, loadingSeries, seriesInflight>>
  /\ UNCHANGED <<hookVars, chartVars, searchVars, backtestVars, eventsVars,
                 dashboardVars, view>>

setSelectedForexPair(pair) ==
  /\ rangeCall' = NoCall
  /\ applied' = NoResponse
  /\ dataSource = "forex"
  /\ selectedForexPair' = pair
  /\ UNCHANGED <<dataSource, yahooTicker, selectedCrypto, selectedDatabase,
                 seriesList, selectedSeries, loadingSeries, seriesInflight>>
  /\ UNCHANGED <<hookVars, chartVars, searchVars, backtestVars, eventsVars,
                 dashboardVars, view>>

NoRequest == [kind |-> "none"]

\* submitRequest that passes the Yahoo ticker as typed
submitRequest_tickerAsTyped ==
  IF dataSource = "yahoo"
    THEN (IF Trim(yahooTicker) # <<>>
            THEN [kind |-> "yahoo", symbol |-> yahooTicker, database |-> <<>>]
            ELSE NoRequest)
  ELSE IF dataSource = "haver"
    THEN (IF selectedDatabase # <<>> /\ selectedSeries # <<>>
            THEN [kind |-> "haver", symbol |-> selectedSeries,
                  database |-> selectedDatabase]
            ELSE NoRequest)
  ELSE IF dataSource = "crypto"
    THEN (IF selectedCrypto # <<>>
            THEN [kind |-> "crypto", symbol |-> selectedCrypto, database |-> <<>>]
            ELSE NoRequest)
  ELSE (IF selectedForexPair # <<>>
          THEN [kind |-> "forex", symbol |-> selectedForexPair, database |-> <<>>]
          ELSE NoRequest)

\* the loader call of handleSubmit, if it makes one
submitRequest ==
  IF dataSource = "yahoo"
    THEN (IF Trim(yahooTicker) # <<>>
            THEN [kind |-> "yahoo", symbol |-> ToUpperCase(Trim(yahooTicker)),
                  database |-> <<>>]
            ELSE NoRequest)
  ELSE IF dataSource = "haver"
    THEN (IF selectedDatabase # <<>> /\ selectedSeries # <<>>
            THEN [kind |-> "haver", symbol |-> selectedSeries,
                  database |-> selectedDatabase]
            ELSE NoRequest)
  ELSE IF dataSource = "crypto"
    THEN (IF selectedCrypto # <<>>
            THEN [kind |-> "crypto", symbol |-> selectedCrypto, database |-> <<>>]
            ELSE NoRequest)
  ELSE (IF selectedForexPair # <<>>
          THEN [kind |-> "forex", symbol |-> selectedForexPair, database |-> <<>>]
          ELSE NoRequest)

\* the submit button of the active tab is enabled
submitEnabled ==
  /\ ~loading
  /\ CASE dataSource = "yahoo" -> Trim(yahooTicker) # <<>>
       [] dataSource = "haver" -> selectedDatabase # <<>> /\ selectedSeries # <<>>
       [] dataSource = "crypto" -> selectedCrypto # <<>>
       [] dataSource = "forex" -> selectedForexPair # <<>>

\* handleSubmit: the form is submitted through its enabled button
handleSubmit ==
  /\ submitEnabled
  /\ IF submitRequest # NoRequest
       THEN LoadData(submitRequest)
       ELSE /\ rangeCall' = NoCall
            /\ applied' = NoResponse
            /\ UNCHANGED <<hookVars, chartVars, searchVars, backtestVars, eventsVars,
                           panelVars, view>>

(***************************************************************************)
(* PerformanceDashboard: the stored backtests of an asset class and the    *)
(* detail of the selected symbol.                                          *)
(***************************************************************************)
AssetClasses == {"sp500", "crypto"}

\* the summaries the service holds for an asset class
SummariesOf(class) ==
  IF class = "sp500" THEN <<[symbol |-> <<"AAPL">>], [symbol |-> <<"MSFT">>]>>
  ELSE <<[symbol |-> <<"BTC">>]>>

\* the detail the service holds for a symbol of an asset class
DetailOf(req) ==
  [summary |-> [symbol |-> req.symbol, asset_class |-> req.assetClass],
   windows |-> <<[actual_value |-> 4, forecast_value |-> 6]>>]

\* the effect on selectedSymbol: loadDetail(symbol) up to the await, when
\* the symbol changed to a non-null one
selectedSymbolEffect(class, symbol) ==
  IF symbol # selectedSymbol /\ symbol # Null
    THEN /\ detailLoading' = TRUE
         /\ detailError' = Null
         /\ detailInflight' = Append(detailInflight,
                                     [assetClass |-> class, symbol |-> symbol.s])
    ELSE UNCHANGED <<detailLoading, detailError, detailInflight>>

\* loadSummaries up to the await: the mount effect, the refresh button
\* (disabled while loading), or the effect of another asset class
loadSummaries(class) ==
  /\ rangeCall' = NoCall
  /\ applied' = NoResponse
  /\ class # assetClass \/ ~summariesLoading
  /\ Len(summariesInflight) < MaxInflight
  /\ assetClass' = class
  /\ summariesLoading' = TRUE
  /\ summariesError' = Null
  /\ summaries' = <<>>
  /\ detail' = Null
  /\ selectedSymbol' = Null
  /\ summariesInflight' = Append(summariesInflight, class)
  /\ UNCHANGED <<detailLoading, detailError, detailInflight>>
  /\ UNCHANGED <<hookVars, chartVars, searchVars, backtestVars, eventsVars,
                 selectorVars, view>>

\* loadSummaries: the answer to the call at position i arrived; the first
\* symbol is selected, which starts loadDetail when it is another symbol
SummariesResolved(i) ==
  /\ rangeCall' = NoCall
  /\ i \in 1..Len(summariesInflight)
  /\ LET results == SummariesOf(summariesInflight[i])
     IN  /\ summaries' = results
         /\ selectedSymbol' = IF Len(results) > 0 THEN Str(results[1].symbol)
                               ELSE selectedSymbol
         /\ Len(results) > 0 /\ Str(results[1].symbol) # selectedSymbol
              => Len(detailInflight) < MaxInflight
         /\ selectedSymbolEffect(assetClass, selectedSymbol')
         /\ applied' = [kind |-> "summaries", request |-> summariesInflight[i],
                        position |-> i, response |-> results]
  /\ summariesLoading' = FALSE
  /\ summariesInflight' = RemoveAt(summariesInflight, i)
  /\ UNCHANGED <<assetClass, detail, summariesError>>
  /\ UNCHANGED <<hookVars, chartVars, searchVars, backtestVars, eventsVars,
                 selectorVars, view>>

SummariesRejected(i, thrown) ==
  /\ rangeCall' = NoCall
  /\ applied' = NoResponse
  /\ i \in 1..Len(summariesInflight)
  /\ summariesError' = ErrorMessage(thrown, <<"Failed to load backtests">>)
  /\ summariesLoading' = FALSE
  /\ summariesInflight' = RemoveAt(summariesInflight, i)
  /\ UNCHANGED <<assetClass, summaries, selectedSymbol, detail, detailLoading,
                 detailError, detailInflight>>
  /\ UNCHANGED <<hookVars, chartVars, searchVars, backtestVars, eventsVars,
                 selectorVars, view>>

\* handleSelect(symbol) on a button of the list, then the effect
handleSelect(i) ==
  /\ rangeCall' = NoCall
  /\ applied' = NoResponse
  /\ ~summariesLoading
  /\ i \in 1..Len(summaries)
  /\ Str(summaries[i].symbol) # selectedSymbol
  /\ Len(detailInflight) < MaxInflight
  /\ selectedSymbol' = Str(summaries[i].symbol)
  /\ selectedSymbolEffect(assetClass, selectedSymbol')
  /\ UNCHANGED <<assetClass, summaries, detail, summariesLoading, summariesError,
                 summariesInflight>>
  /\ UNCHANGED <<hookVars, chartVars, searchVars, backtestVars, eventsVars,
                 selectorVars, view>>

\* loadDetail: the answer to the call at position i arrived
DetailResolved(i) ==
  /\ rangeCall' = NoCall
  /\ i \in 1..Len(detailInflight)
  /\ detail' = DetailOf(detailInflight[i])
  /\ detailLoading' = FALSE
  /\ detailInflight' = RemoveAt(detailInflight, i)
  /\ applied' = [kind |-> "detail", request |-> detailInflight[i], position |-> i,
                 response |-> DetailOf(detailInflight[i])]
  /\ UNCHANGED <<assetClass, summaries, selectedSymbol, summariesLoading,
                 summariesError, detailError, summariesInflight>>
  /\ UNCHANGED <<hookVars, chartVars, searchVars, backtestVars, eventsVars,
                 selectorVars, view>>

\* loadDetail: the call at position i failed
DetailRejected(i, thrown) ==
  /\ rangeCall' = NoCall
  /\ applied' = NoResponse
  /\ i \in 1..Len(detailInflight)
  /\ detailError' = ErrorMessage(thrown, <<"Failed to load details">>)
  /\ detail' = Null
  /\ detailLoading' = FALSE
  /\ detailInflight' = RemoveAt(detailInflight, i)
  /\ UNCHANGED <<assetClass, summaries, selectedSymbol, summariesLoading,
                 summariesError, summariesInflight>>
  /\ UNCHANGED <<hookVars, chartVars, searchVars, backtestVars, eventsVars,
                 selectorVars, view>>

(***************************************************************************)
(* The dashboard: data loads, drag gestures, searches and backtests in any *)
(* interleaving.                                                           *)
(***************************************************************************)
Next ==
  \/ \E req \in DataRequests : LoadData(req)
  \/ \E req \in dataInflight, result \in FetchResults : LoadResolved(req, result)
  \/ \E req \in dataInflight, thrown \in Thrown : LoadRejected(req, thrown)
  \/ \E label \in ActiveLabels : onMouseDown(label)
  \/ \E label \in ActiveLabels : onMouseMove(label)
  \/ onMouseUp
  \/ \E brushData \in BrushData : onBrushChange(brushData)
  \/ \E q \in Queries : handleSearch(q)
  \/ \E req \in searchInflight, result \in SearchAnswers : SearchResolved(req, result)
  \/ \E req \in searchInflight, thrown \in Thrown : SearchRejected(req, thrown)
  \/ handleBacktest
  \/ \E req \in backtestInflight, result \in BacktestAnswers : BacktestResolved(req, result)
  \/ \E req \in backtestInflight, thrown \in Thrown : BacktestRejected(req, thrown)
  \/ handleCriticalEvents
  \/ \E req \in eventsInflight : \E result \in EventsAnswers(req) :
       EventsResolved(req, result)
  \/ \E req \in eventsInflight, thrown \in Thrown : EventsRejected(req, thrown)
  \/ \E checked \in BOOLEAN : onToggleMarkers(checked)
  \/ \E db \in Databases \cup {<<>>} : SelectDatabase(db)
  \/ \E i \in 1..MaxInflight : SeriesResolved(i)
  \/ \E i \in 1..MaxInflight : SeriesRejected(i)
  \/ \E i \in 1..Len(seriesList) : SelectSeries(i)
  \/ \E class \in AssetClasses : loadSummaries(class)
  \/ \E i \in 1..MaxInflight : SummariesResolved(i)
  \/ \E i \in 1..MaxInflight, thrown \in Thrown : SummariesRejected(i, thrown)
  \/ \E i \in 1..Len(summaries) : handleSelect(i)
  \/ \E i \in 1..MaxInflight : DetailResolved(i)
  \/ \E i \in 1..MaxInflight, thrown \in Thrown : DetailRejected(i, thrown)

Spec == Init /\ [][Next]_vars

(***************************************************************************)
(* The chart alone: data loads and drag gestures in any interleaving.      *)
(***************************************************************************)
NextChart ==
  \/ \E req \in DataRequests : LoadData(req)
  \/ \E req \in dataInflight, result \in FetchResults : LoadResolved(req, result)
  \/ \E req \in dataInflight, thrown \in Thrown : LoadRejected(req, thrown)
  \/ \E label \in ActiveLabels : onMouseDown(label)
  \/ \E label \in ActiveLabels : onMouseMove(label)
  \/ onMouseUp

SpecChart == Init /\ [][NextChart]_vars

(***************************************************************************)
(* The inputs of the analysis specifications: loads of one ticker that     *)
(* answer one of two short series, one answer per request kind.            *)
(***************************************************************************)
AppRequests == { req \in DataRequests : req.kind = "yahoo" }

AppFetchResults ==
  { result \in FetchResults :
      result.timestamps \in {<<TimestampPool[1], TimestampPool[2]>>,
                             <<TimestampPool[3], TimestampPool[4]>>} }

AppBacktestAnswers == { result \in BacktestAnswers : Len(result.windows) > 0 }

AppEventsAnswers(req) == { result \in EventsAnswers(req) : Len(result.events) > 0 }

(***************************************************************************)
(* Ranges and requests: loads, drag and brush gestures, and the requests   *)
(* of the three kinds with their answers, in any interleaving.             *)
(***************************************************************************)
AppThrown == { thrown \in Thrown : thrown.isError }

NextRanges ==
  \/ \E req \in AppRequests : LoadData(req)
  \/ \E req \in dataInflight, result \in AppFetchResults : LoadResolved(req, result)
  \/ \E req \in dataInflight, thrown \in AppThrown : LoadRejected(req, thrown)
  \/ \E label \in ActiveLabels : onMouseDown(label)
  \/ \E label \in ActiveLabels : onMouseMove(label)
  \/ onMouseUp
  \/ \E brushData \in BrushData : onBrushChange(brushData)
  \/ \E q \in Queries : handleSearch(q)
  \/ \E req \in searchInflight, result \in SearchAnswers : SearchResolved(req, result)
  \/ handleBacktest
  \/ \E req \in backtestInflight, result \in AppBacktestAnswers : BacktestResolved(req, result)
  \/ handleCriticalEvents
  \/ \E req \in eventsInflight : \E result \in AppEventsAnswers(req) :
       EventsResolved(req, result)

SpecRanges == Init /\ [][NextRanges]_vars

\* no request in flight, no drag in progress, the whole series in the brush,
\* nothing rendered yet (the search result is left to the initial state)
Idle ==
  /\ loading = FALSE
  /\ error = Null
  /\ dataInflight = {}
  /\ refAreaLeft = Null
  /\ refAreaRight = Null
  /\ isDragging = FALSE
  /\ searchLoading = FALSE
  /\ searchError = Null
  /\ backtestLoading = FALSE
  /\ backtestError = Null
  /\ searchInflight = {}
  /\ backtestInflight = {}
  /\ brushRange = brushRangeOf(data, Undefined)
  /\ criticalEventsResult = Null
  /\ criticalEventsLoading = FALSE
  /\ criticalEventsError = Null
  /\ showEventMarkers = FALSE
  /\ eventsInflight = {}
  /\ dataSource = "yahoo"
  /\ yahooTicker = <<"NVDA">>
  /\ selectedCrypto = <<"BTC">>
  /\ selectedForexPair = <<"EURUSD">>
  /\ selectedDatabase = <<>>
  /\ seriesList = <<>>
  /\ selectedSeries = <<>>
  /\ loadingSeries = FALSE
  /\ seriesInflight = <<>>
  /\ assetClass = "sp500"
  /\ summaries = <<>>
  /\ selectedSymbol = Null
  /\ summariesLoading = FALSE
  /\ summariesError = Null
  /\ detailLoading = FALSE
  /\ detailError = Null
  /\ summariesInflight = <<>>
  /\ detailInflight = <<>>
  /\ view = NoView
  /\ rangeCall = NoCall
  /\ applied = NoResponse

(***************************************************************************)
(* What the result panels show.  SearchResults, BacktestResults and        *)
(* CriticalEventsList are mounted while their kind has a result, is        *)
(* loading or has an error, and return the loading panel, else the error   *)
(* panel, else the result.                                                 *)
(***************************************************************************)
PanelOf(result, isLoading, message, hasContent) ==
  IF ~(result # Null \/ isLoading \/ Truthy(message)) THEN [panel |-> "unmounted"]
  ELSE IF isLoading THEN [panel |-> "loading"]
  ELSE IF Truthy(message) THEN [panel |-> "error", message |-> message]
  ELSE IF ~hasContent THEN [panel |-> "none"]
  ELSE [panel |-> "result", result |-> result]

SearchResultsPanel == PanelOf(searchResult, searchLoading, searchError, TRUE)

BacktestResultsPanel == PanelOf(backtestResult, backtestLoading, backtestError, TRUE)

CriticalEventsListPanel ==
  PanelOf(criticalEventsResult, criticalEventsLoading, criticalEventsError,
          criticalEventsResult # Null /\ Len(criticalEventsResult.events) # 0)

\* the error display above the chart
DataErrorPanel ==
  IF Truthy(error) THEN [panel |-> "error", message |-> error]
  ELSE [panel |-> "unmounted"]

(***************************************************************************)
(* The requests alone: after NVDA was loaded and its two points were       *)
(* selected by a drag, loads and the requests of the three kinds with      *)
(* their answers and failures, in any interleaving.                        *)
(***************************************************************************)
InitSelected ==
  /\ data = transformData(<<TimestampPool[1], TimestampPool[2]>>,
                          <<ValuePattern[1], ValuePattern[2]>>)
  /\ ticker = <<"NVDA">>
  /\ currency = Null
  /\ selectedRange = dragRange(data, Str(data[1].timestamp), Str(data[2].timestamp))
  /\ backtestResult = Null
  /\ detail = Null
  /\ searchResult = Null
  /\ Idle

NextRequests ==
  \/ \E req \in AppRequests : LoadData(req)
  \/ \E req \in dataInflight, result \in AppFetchResults : LoadResolved(req, result)
  \/ \E req \in dataInflight, thrown \in Thrown : LoadRejected(req, thrown)
  \/ \E q \in Queries : handleSearch(q)
  \/ \E req \in searchInflight, result \in SearchAnswers : SearchResolved(req, result)
  \/ \E req \in searchInflight, thrown \in Thrown : SearchRejected(req, thrown)
  \/ handleBacktest
  \/ \E req \in backtestInflight, result \in AppBacktestAnswers : BacktestResolved(req, result)
  \/ \E req \in backtestInflight, thrown \in Thrown : BacktestRejected(req, thrown)
  \/ handleCriticalEvents
  \/ \E req \in eventsInflight : \E result \in EventsAnswers(req) :
       EventsResolved(req, result)
  \/ \E req \in eventsInflight, thrown \in Thrown : EventsRejected(req, thrown)
  \/ \E checked \in BOOLEAN : onToggleMarkers(checked)

SpecRequests == InitSelected /\ [][NextRequests]_vars

\* the promise of a request in flight settles, with an answer or a failure
DataSettles ==
  \E req \in dataInflight :
    \/ \E result \in AppFetchResults : LoadResolved(req, result)
    \/ \E thrown \in Thrown : LoadRejected(req, thrown)

SearchSettles ==
  \E req \in searchInflight :
    \/ \E result \in SearchAnswers : SearchResolved(req, result)
    \/ \E thrown \in Thrown : SearchRejected(req, thrown)

BacktestSettles ==
  \E req \in backtestInflight :
    \/ \E result \in AppBacktestAnswers : BacktestResolved(req, result)
    \/ \E thrown \in Thrown : BacktestRejected(req, thrown)

EventsSettles ==
  \E req \in eventsInflight :
    \/ \E result \in EventsAnswers(req) : EventsResolved(req, result)
    \/ \E thrown \in Thrown : EventsRejected(req, thrown)

\* the requests, every promise settling
SpecSettling ==
  /\ SpecRequests
  /\ WF_vars(DataSettles)
  /\ WF_vars(SearchSettles)
  /\ WF_vars(BacktestSettles)
  /\ WF_vars(EventsSettles)

(***************************************************************************)
(* Drags over a loaded series: after NVDA was loaded and its two points    *)
(* were selected, drag gestures and the requests of the three kinds with   *)
(* their answers and failures, in any interleaving.                        *)
(***************************************************************************)
NextSelect ==
  \/ \E label \in ActiveLabels : onMouseDown(label)
  \/ \E label \in ActiveLabels : onMouseMove(label)
  \/ onMouseUp
  \/ \E q \in Queries : handleSearch(q)
  \/ \E req \in searchInflight, result \in SearchAnswers : SearchResolved(req, result)
  \/ \E req \in searchInflight, thrown \in AppThrown : SearchRejected(req, thrown)
  \/ handleBacktest
  \/ \E req \in backtestInflight, result \in AppBacktestAnswers : BacktestResolved(req, result)
  \/ \E req \in backtestInflight, thrown \in AppThrown : BacktestRejected(req, thrown)
  \/ handleCriticalEvents
  \/ \E req \in eventsInflight : \E result \in AppEventsAnswers(req) :
       EventsResolved(req, result)
  \/ \E req \in eventsInflight, thrown \in AppThrown : EventsRejected(req, thrown)
  \/ \E checked \in BOOLEAN : onToggleMarkers(checked)

SpecSelect == InitSelected /\ [][NextSelect]_vars

(***************************************************************************)
(* The event markers: loads with their answers and failures, brush         *)
(* changes, critical-events requests with their answers and failures, and  *)
(* the marker checkbox, in any interleaving.                               *)
(***************************************************************************)
NextMarkers ==
  \/ \E req \in AppRequests : LoadData(req)
  \/ \E req \in dataInflight, result \in AppFetchResults : LoadResolved(req, result)
  \/ \E req \in dataInflight, thrown \in AppThrown : LoadRejected(req, thrown)
  \/ \E brushData \in BrushData : onBrushChange(brushData)
  \/ handleCriticalEvents
  \/ \E req \in eventsInflight : \E result \in EventsAnswers(req) :
       EventsResolved(req, result)
  \/ \E req \in eventsInflight, thrown \in AppThrown : EventsRejected(req, thrown)
  \/ \E checked \in BOOLEAN : onToggleMarkers(checked)

SpecMarkers == Init /\ [][NextMarkers]_vars

(***************************************************************************)
(* The brush over changing series: loads that answer any series within     *)
(* the bounds or fail, and brush changes, in any interleaving.             *)
(***************************************************************************)
NextBrush ==
  \/ \E req \in AppRequests : LoadData(req)
  \/ \E req \in dataInflight, result \in FetchResults : LoadResolved(req, result)
  \/ \E req \in dataInflight, thrown \in AppThrown : LoadRejected(req, thrown)
  \/ \E brushData \in BrushData : onBrushChange(brushData)

SpecBrush == Init /\ [][NextBrush]_vars

(***************************************************************************)
(* MarkdownRenderer: the text is split into lines, and the lines are       *)
(* grouped into breaks, paragraphs and lists.  A line is a sequence of     *)
(* tokens: a list marker, a space, a carriage return, a word.              *)
(***************************************************************************)
\* the lines of a text: blank, white, plain, unordered items (one
\* indented), a bold line, ordered items (one with a carriage return
\* inside, one followed by the carriage return of a CRLF line end)
MarkdownLines ==
  {<<>>, <<" ">>, <<"text">>,
   <<"-", " ", "a">>, <<" ", "*", " ", "b">>, <<"**", "bold", "**">>,
   <<"1.", " ", "c", "\r">>, <<"2.", " ", "d", "\r", "e">>}

\* content.split('\n') of the texts of at most MaxLines lines
Contents == SeqsUpTo(MarkdownLines, MaxLines) \ {<<>>}

\* trimmed.startsWith('- ') || (trimmed.startsWith('* ') && !trimmed.startsWith('**'))
isUnorderedList(trimmed) ==
  /\ Len(trimmed) >= 2
  /\ trimmed[2] = " "
  /\ trimmed[1] = "-" \/ (trimmed[1] = "*" /\ trimmed[1] # "**")

\* /^\d+\.\s+/.test(trimmed)
isOrderedList(trimmed) ==
  /\ Len(trimmed) >= 2
  /\ trimmed[1] \in {"1.", "2."}
  /\ trimmed[2] \in WhiteSpace

\* trimmed.match(/^\d+\.\s+(.+)$/): the group after the white space, or
\* null when a line terminator follows, which '.' does not match
orderedMatch(trimmed) ==
  LET rest == TrimStart(Tail(trimmed))
  IN  IF \E i \in 1..Len(rest) : rest[i] \in LineTerminators
        THEN Null
        ELSE [group |-> rest]

\* elements.push(<ul>{currentList}</ul>) or elements.push(<ol>...</ol>), by
\* the type of the open list
closeList(elements, listType, currentList) ==
  IF listType = "unordered" THEN Append(elements, [tag |-> "ul", items |-> currentList])
  ELSE IF listType = "ordered" THEN Append(elements, [tag |-> "ol", items |-> currentList])
  ELSE elements

\* the body of lines.forEach on the line at index
groupLine(st, line, index) ==
  LET trimmed == Trim(line)
  IN  IF isUnorderedList(trimmed)
        THEN LET closes == st.listType # "unordered" /\ Len(st.currentList) > 0
                             /\ st.listType = "ordered"
             IN  [elements |-> IF closes
                                 THEN closeList(st.elements, "ordered", st.currentList)
                                 ELSE st.elements,
                  currentList |-> Append(IF closes THEN <<>> ELSE st.currentList,
                                         [key |-> index,
                                          text |-> SubSeq(trimmed, 3, Len(trimmed))]),
                  listType |-> "unordered"]
      ELSE IF isOrderedList(trimmed)
        THEN LET closes == st.listType # "ordered" /\ Len(st.currentList) > 0
                             /\ st.listType = "unordered"
                 kept == IF closes THEN <<>> ELSE st.currentList
             IN  [elements |-> IF closes
                                 THEN closeList(st.elements, "unordered", st.currentList)
                                 ELSE st.elements,
                  currentList |-> IF orderedMatch(trimmed) # Null
                                    THEN Append(kept, [key |-> index,
                                                       text |-> orderedMatch(trimmed).group])
                                    ELSE kept,
                  listType |-> "ordered"]
      ELSE LET closed == IF Len(st.currentList) > 0
                           THEN closeList(st.elements, st.listType, st.currentList)
                           ELSE st.elements
           IN  [elements |-> IF trimmed = <<>>
                               THEN Append(closed, [tag |-> "br", key |-> index])
                               ELSE Append(closed, [tag |-> "p", key |-> index,
                                                    text |-> line]),
                currentList |-> IF Len(st.currentList) > 0 THEN <<>> ELSE st.currentList,
                listType |-> IF Len(st.currentList) > 0 THEN "null" ELSE st.listType]

\* lines.forEach from the line at position i on
RECURSIVE groupLines(_, _, _)
groupLines(lines, i, st) ==
  IF i > Len(lines) THEN st
  ELSE groupLines(lines, i + 1, groupLine(st, lines[i], i - 1))

\* the elements MarkdownRenderer returns for the lines of its content
MarkdownRenderer(lines) ==
  LET st == groupLines(lines, 1, [elements |-> <<>>, currentList |-> <<>>,
                                  listType |-> "null"])
  IN  IF Len(st.currentList) > 0
        THEN closeList(st.elements, st.listType, st.currentList)
        ELSE st.elements

\* one render of SearchResults with a result: its content goes through
\* MarkdownRenderer
RenderSearchResults ==
  /\ rangeCall' = NoCall
  /\ applied' = NoResponse
  /\ SearchResultsPanel.panel = "result"
  /\ view' = [component |-> "SearchResults",
              status |-> searchResult.status,
              content |-> searchResult.content,
              elements |-> MarkdownRenderer(searchResult.content)]
  /\ UNCHANGED <<hookVars, chartVars, searchVars, backtestVars, eventsVars, panelVars>>

\* a search was answered with a text
InitMarkdown ==
  /\ data = transformData(<<TimestampPool[1], TimestampPool[2]>>,
                          <<ValuePattern[1], ValuePattern[2]>>)
  /\ ticker = <<"NVDA">>
  /\ currency = Null
  /\ selectedRange = dragRange(data, Str(data[1].timestamp), Str(data[2].timestamp))
  /\ backtestResult = Null
  /\ detail = Null
  /\ \E content \in Contents :
       searchResult = [run_id |-> "r1", status |-> "completed", content |-> content]
  /\ Idle

SpecMarkdown == InitMarkdown /\ [][RenderSearchResults]_vars

(***************************************************************************)
(* The selection panels alone: the Haver tab once its databases are        *)
(* listed, and the performance dashboard of one asset class (mounted and   *)
(* refreshed).                                                             *)
(***************************************************************************)
NextPanels ==
  \/ \E db \in Databases \cup {<<>>} : SelectDatabase(db)
  \/ \E i \in 1..MaxInflight : SeriesResolved(i)
  \/ \E i \in 1..MaxInflight : SeriesRejected(i)
  \/ \E i \in 1..Len(seriesList) : SelectSeries(i)
  \/ loadSummaries(assetClass)
  \/ \E i \in 1..MaxInflight : SummariesResolved(i)
  \/ \E i \in 1..MaxInflight, thrown \in Thrown : SummariesRejected(i, thrown)
  \/ \E i \in 1..Len(summaries) : handleSelect(i)
  \/ \E i \in 1..MaxInflight : DetailResolved(i)
  \/ \E i \in 1..MaxInflight, thrown \in Thrown : DetailRejected(i, thrown)

SpecPanels == Init /\ [][NextPanels]_vars

(***************************************************************************)
(* The data source selector with its loads: the tabs and their inputs,     *)
(* the Haver database and series selection, handleSubmit and the answers   *)
(* to the loads it starts.                                                 *)
(***************************************************************************)
SelectorFetchResults ==
  { result \in FetchResults : result.timestamps = <<TimestampPool[1]>> }

\* every tab with its inputs, and one Haver database
NextSelector ==
  \/ \E source \in Sources : setDataSource(source)
  \/ \E text \in YahooInputs : setYahooTicker(text)
  \/ \E symbol \in CryptoSymbols : setSelectedCrypto(symbol)
  \/ \E pair \in ForexPairs : setSelectedForexPair(pair)
  \/ \E db \in {<<"G10">>, <<>>} : SelectDatabase(db)
  \/ \E i \in 1..MaxInflight : SeriesResolved(i)
  \/ \E i \in 1..Len(seriesList) : SelectSeries(i)
  \/ handleSubmit
  \/ \E req \in dataInflight, result \in SelectorFetchResults : LoadResolved(req, result)

SpecSelector == Init /\ [][NextSelector]_vars

\* the Haver tab alone, with every database
NextHaver ==
  \/ setDataSource("haver")
  \/ \E db \in Databases \cup {<<>>} : SelectDatabase(db)
  \/ \E i \in 1..MaxInflight : SeriesResolved(i)
  \/ \E i \in 1..MaxInflight : SeriesRejected(i)
  \/ \E i \in 1..Len(seriesList) : SelectSeries(i)
  \/ handleSubmit
  \/ \E req \in dataInflight, result \in SelectorFetchResults : LoadResolved(req, result)

SpecHaver == Init /\ [][NextHaver]_vars

(***************************************************************************)
(* Properties of the drag selection (SpecChart).                           *)
(***************************************************************************)
\* d is the date part of the timestamp ts: the longest prefix of ts without
\* a 'T'
IsDatePartOf(d, ts) ==
  /\ Len(d) <= Len(ts)
  /\ \A i \in 1..Len(d) : d[i] = ts[i] /\ d[i] # "T"
  /\ (Len(d) = Len(ts) \/ ts[Len(d) + 1] = "T")

\* C3: when a drag gesture ends (onMouseUp) with its start index equal to its
\* end index, onRangeChange(null) is called and the selected range becomes
\* none, whatever range was selected before.
C3_SinglePointDragClears ==
  [][(/\ Len(data) # 0
      /\ isDragging /\ ~isDragging'
      /\ FindIndex(data, refAreaLeft.s) = FindIndex(data, refAreaRight.s))
       => (/\ rangeCall'.called
           /\ rangeCall'.range = Null
           /\ selectedRange' = Null)]_vars

\* a single-point drag has just replaced a selected range by none
C3_Witness ==
  /\ rangeCall.called
  /\ rangeCall.leftIndex = rangeCall.rightIndex
  /\ rangeCall.leftIndex >= 0
  /\ rangeCall.previous # Null
  /\ selectedRange = Null

\* C4: every non-null range a drag gesture emits has startIndex < endIndex
\* whatever the drag direction: a drag between two different points emits the
\* range from the smaller to the larger of the two indices (swapped when the
\* user dragged backward), and its startDate and endDate are the date parts
\* of data[startIndex].timestamp and data[endIndex].timestamp.
C4_EmittedRangeOrdered ==
  rangeCall.called =>
    /\ rangeCall.leftIndex # rangeCall.rightIndex => rangeCall.range # Null
    /\ rangeCall.range # Null =>
         LET r == rangeCall.range
             lo == IF rangeCall.leftIndex < rangeCall.rightIndex
                     THEN rangeCall.leftIndex ELSE rangeCall.rightIndex
             hi == IF rangeCall.leftIndex < rangeCall.rightIndex
                     THEN rangeCall.rightIndex ELSE rangeCall.leftIndex
         IN  /\ r.startIndex < r.endIndex
             /\ r.startIndex = lo /\ r.endIndex = hi
             /\ 0 <= r.startIndex /\ r.endIndex < Len(data)
             /\ IsDatePartOf(r.startDate, data[r.startIndex + 1].timestamp)
             /\ IsDatePartOf(r.endDate, data[r.endIndex + 1].timestamp)
             /\ selectedRange = r

\* a backward drag has just emitted a range
C4_Witness ==
  /\ rangeCall.called
  /\ rangeCall.leftIndex > rangeCall.rightIndex
  /\ rangeCall.range # Null
  /\ rangeCall.range.startDate # data[rangeCall.range.startIndex + 1].timestamp

\* C5: in every state in which a load has just replaced the series (with new
\* points on success, or with the empty series on failure), selectedRange is
\* none, for any interleaving of drag gestures with the load's request and
\* its response.
C5_RangeDiscardedOnSeriesChange ==
  [][(loading /\ ~loading') => selectedRange' = Null]_vars

(***************************************************************************)
(* Range statistics as a function of the series and the range: every       *)
(* series over StatValues with every range a drag can select on it, then   *)
(* a render of the chart and a search request.                             *)
(***************************************************************************)
StatValues == {-10, 0, 90, 100, 110}

StatSeries ==
  { transformData([i \in 1..Len(vs) |-> TimestampPool[i]], vs) :
      vs \in SeqsUpTo(StatValues, MaxLen) }

InitStats ==
  /\ data \in StatSeries
  /\ selectedRange \in
       {Null} \cup { dragRange(data, Str(data[i].timestamp), Str(data[j].timestamp)) :
                       i \in 1..Len(data), j \in 1..Len(data) }
  /\ ticker = <<"NVDA">>
  /\ currency = Null
  /\ backtestResult = Null
  /\ detail = Null
  /\ searchResult = Null
  /\ Idle

NextStats ==
  \/ RenderChart
  \/ \E q \in Queries : handleSearch(q)

SpecStats == InitStats /\ [][NextStats]_vars

\* the values of the series as integers
IntValues(series) == [i \in 1..Len(series) |-> series[i].value.n]

\* C1: for every series and every selected range whose start point has a
\* value other than 0, the range statistics of the chart are
\* change = data[endIndex].value - data[startIndex].value and
\* changePercent = change / data[startIndex].value * 100; the values
\* [100, 110, 90] with the range index 0 -> index 2 give change = -10 and
\* changePercent = -10.
C1_RangeStatsFormula ==
  (view.component = "TimeSeriesChart" /\ selectedRange # Null) =>
    LET startValue == IntValues(data)[selectedRange.startIndex + 1]
        endValue == IntValues(data)[selectedRange.endIndex + 1]
        stats == view.rangeStats
    IN  startValue # 0 =>
          /\ stats # Null
          /\ stats.change = Num(endValue - startValue)
          /\ IsNum(stats.changePercent)
          /\ stats.changePercent.n * startValue
               = (endValue - startValue) * 100 * stats.changePercent.d
          /\ (IntValues(data) = <<100, 110, 90>> /\ selectedRange.startIndex = 0
                /\ selectedRange.endIndex = 2)
               => (stats.change = Num(-10) /\ stats.changePercent = Num(-10))

\* the chart has rendered the statistics of [100, 110, 90] over index 0 -> 2
C1_Witness ==
  /\ view.component = "TimeSeriesChart"
  /\ IntValues(data) = <<100, 110, 90>>
  /\ selectedRange # Null
  /\ selectedRange.startIndex = 0 /\ selectedRange.endIndex = 2
  /\ view.rangeStats # Null
  /\ view.rangeStats.changePercent = Num(-10)

\* C2: for a range whose start value A is not 0, of either sign, and whose
\* end value is B, changePercent > 0 exactly when B > A and changePercent < 0
\* exactly when B < A; the '+' prefix of the header and the '+' prefix and
\* the 'increased' / 'decreased' wording of the search request, chosen from
\* the sign of change, agree with the sign of the percentage printed next to
\* them.
C2_PercentSignMatchesDirection ==
  selectedRange # Null =>
    LET startValue == IntValues(data)[selectedRange.startIndex + 1]
        endValue == IntValues(data)[selectedRange.endIndex + 1]
    IN  startValue # 0 =>
          /\ view.component = "TimeSeriesChart" =>
               /\ Sign(view.rangeStats.changePercent) > 0 <=> endValue > startValue
               /\ Sign(view.rangeStats.changePercent) < 0 <=> endValue < startValue
               /\ view.header.plus <=> ~view.header.percent.minus
          /\ \A req \in searchInflight :
               /\ req.change_description.plus <=> ~req.change_description.percent.minus
               /\ req.change_description.word = "increased"
                    <=> ~req.change_description.percent.minus

(***************************************************************************)
(* BacktestResults: what a render computes from result and fullTimeSeries. *)
(***************************************************************************)
\* arr[i] of an array of numbers
NumAt(arr, i) == IF i >= 0 /\ i < Len(arr) THEN Num(arr[i + 1]) ELSE Undefined

\* map.set(key, value)
MapSet(map, key, value) ==
  [x \in (DOMAIN map) \cup {key} |-> IF x = key THEN value ELSE map[x]]

\* SetEntries with the whole timestamp as the key
RECURSIVE SetEntries_byTimestamp(_, _, _)
SetEntries_byTimestamp(map, window, i) ==
  IF i >= Len(window.timestamps) THEN map
  ELSE SetEntries_byTimestamp(MapSet(map, window.timestamps[i + 1],
                                     NumAt(window.forecast_values, i)),
                              window, i + 1)

\* SetEntries that keeps the value a date already has
RECURSIVE SetEntries_keepFirst(_, _, _)
SetEntries_keepFirst(map, window, i) ==
  IF i >= Len(window.timestamps) THEN map
  ELSE SetEntries_keepFirst(
         IF SplitT0(window.timestamps[i + 1]) \in DOMAIN map THEN map
         ELSE MapSet(map, SplitT0(window.timestamps[i + 1]),
                     NumAt(window.forecast_values, i)),
         window, i + 1)

\* the forEach over window.timestamps from entry i (0-based) on
RECURSIVE SetEntries(_, _, _)
SetEntries(map, window, i) ==
  IF i >= Len(window.timestamps) THEN map
  ELSE SetEntries(MapSet(map, SplitT0(window.timestamps[i + 1]),
                         NumAt(window.forecast_values, i)),
                  window, i + 1)

\* the forEach over result.windows from window w (0-based) on
RECURSIVE SetWindows(_, _, _)
SetWindows(map, windows, w) ==
  IF w >= Len(windows) THEN map
  ELSE SetWindows(SetEntries(map, windows[w + 1], 0), windows, w + 1)

\* the forecastMap memo: date -> forecast value
forecastMap(result) ==
  IF result = Null THEN <<>>
  ELSE IF Len(result.windows) = 0 THEN <<>>
  ELSE SetWindows(<<>>, result.windows, 0)

\* forecastMap.get(dateKey) ?? null
GetOrNull(map, key) ==
  IF key \in DOMAIN map
    THEN (IF map[key] = Undefined THEN Null ELSE map[key])
    ELSE Null

\* the rows the fallback branch of chartData pushes, window after window
RECURSIVE WindowRows(_, _)
WindowRows(windows, w) ==
  IF w >= Len(windows) THEN <<>>
  ELSE [i \in 1..Len(windows[w + 1].timestamps) |->
          [date |-> windows[w + 1].timestamps[i],
           actual |-> NumAt(windows[w + 1].actual_values, i - 1),
           forecast |-> NumAt(windows[w + 1].forecast_values, i - 1)]]
       \o WindowRows(windows, w + 1)

\* the chartData memo
chartData(result, fullTimeSeries) ==
  IF result = Null THEN <<>>
  ELSE IF Len(fullTimeSeries) > 0
    THEN [i \in 1..Len(fullTimeSeries) |->
            [date |-> fullTimeSeries[i].timestamp,
             actual |-> fullTimeSeries[i].value,
             forecast |-> GetOrNull(forecastMap(result),
                                    SplitT0(fullTimeSeries[i].timestamp))]]
    ELSE WindowRows(result.windows, 0)

\* pointError without the test for a zero actual value
pointError_noZeroTest(a, f) ==
  Mul(MathAbs(Div(Sub(a, f), a)), Num(100))

\* pointError with the absolute value taken of the difference only
pointError_absOfDifference(a, f) ==
  IF a # Num(0) THEN Mul(Div(MathAbs(Sub(a, f)), a), Num(100)) ELSE Num(0)

\* one entry of windowErrors: the error of actual value a against forecast f
pointError(a, f) ==
  IF a # Num(0) THEN Mul(MathAbs(Div(Sub(a, f), a)), Num(100)) ELSE Num(0)

windowErrors(window) ==
  [i \in 1..Len(window.actual_values) |->
     pointError(Num(window.actual_values[i]), NumAt(window.forecast_values, i - 1))]

\* errors.reduce((sum, e) => sum + e, 0) from entry i (0-based) on
RECURSIVE ReduceSum(_, _, _)
ReduceSum(errors, sum, i) ==
  IF i >= Len(errors) THEN sum
  ELSE ReduceSum(errors, Add(sum, errors[i + 1]), i + 1)

\* windowMape divided by the number of forecast values
windowMape_byForecasts(window) ==
  Div(ReduceSum(windowErrors(window), Num(0), 0), Num(Len(window.forecast_values)))

windowMape(window) ==
  Div(ReduceSum(windowErrors(window), Num(0), 0), Num(Len(windowErrors(window))))

getMapeQuality(mape) ==
  IF Less(mape, Num(10)) THEN "Excellent"
  ELSE IF Less(mape, Num(20)) THEN "Good"
  ELSE IF Less(mape, Num(30)) THEN "Fair"
  ELSE "Poor"

\* the overall MAPE recomputed as the MAPE of the first window
overallMape_recomputed(result) ==
  IF Len(result.windows) > 0 THEN windowMape(result.windows[1]) ELSE result.mape

\* the overall MAPE and MAE the key metrics show
overallMape(result) == result.mape
overallMae(result) == result.mae

\* formatDate and formatXAxis of BacktestResults
formatDate(dateStr) == formatOrRaw(dateStr, "MMM d, yyyy")
backtestXAxis(timestamp) == formatOrRaw(timestamp, "MMM d")

\* one render of BacktestResults with the current props
RenderBacktestResults ==
  /\ rangeCall' = NoCall
  /\ applied' = NoResponse
  /\ view' =
       IF backtestLoading THEN [component |-> "BacktestResults", panel |-> "loading"]
       ELSE IF backtestError # Null
         THEN [component |-> "BacktestResults", panel |-> "error",
               message |-> backtestError]
       ELSE IF backtestResult = Null
         THEN [component |-> "BacktestResults", panel |-> "none"]
       ELSE [component |-> "BacktestResults", panel |-> "result",
             forecastMap |-> forecastMap(backtestResult),
             chartData |-> chartData(backtestResult, data),
             cutoff |-> formatDate(backtestResult.cutoff_date),
             ticks |-> [i \in 1..Len(chartData(backtestResult, data)) |->
                          backtestXAxis(chartData(backtestResult, data)[i].date)],
             mape |-> ToFixed(overallMape(backtestResult), 2),
             mapeQuality |-> getMapeQuality(overallMape(backtestResult)),
             mae |-> ToFixed(overallMae(backtestResult), 2),
             windows |->
               [w \in 1..Len(backtestResult.windows) |->
                  [target_start |-> formatDate(backtestResult.windows[w].target_start),
                   target_end |-> formatDate(backtestResult.windows[w].target_end),
                   history_start |-> formatDate(backtestResult.windows[w].history_start),
                   history_end |-> formatDate(backtestResult.windows[w].history_end),
                   windowErrors |-> windowErrors(backtestResult.windows[w]),
                   windowMape |-> windowMape(backtestResult.windows[w]),
                   mape |-> ToFixed(windowMape(backtestResult.windows[w]), 1),
                   quality |-> getMapeQuality(windowMape(backtestResult.windows[w]))]]]
  /\ UNCHANGED <<hookVars, chartVars, searchVars, backtestVars, eventsVars, panelVars>>

(***************************************************************************)
(* PerformanceDashboard: the table of a stored backtest.                   *)
(***************************************************************************)
TableRows == 150

\* the err of one table row
storedError(actual, forecast) ==
  IF actual # Num(0) THEN Mul(Div(Sub(forecast, actual), actual), Num(100)) ELSE Num(0)

\* one render of the table of the stored backtest detail
RenderPerformanceDashboard ==
  /\ ~detailLoading
  /\ detailError = Null
  /\ detail # Null
  /\ rangeCall' = NoCall
  /\ applied' = NoResponse
  /\ view' =
       [component |-> "PerformanceDashboard",
        rows |->
          [i \in 1..(IF Len(detail.windows) < TableRows
                       THEN Len(detail.windows) ELSE TableRows) |->
             LET actual == Num(detail.windows[i].actual_value)
                 forecast == Num(detail.windows[i].forecast_value)
                 err == storedError(actual, forecast)
             IN  [actual |-> ToFixed(actual, 2), forecast |-> ToFixed(forecast, 2),
                  err |-> err, errText |-> ToFixed(err, 2)]]]
  /\ UNCHANGED <<hookVars, chartVars, searchVars, backtestVars, eventsVars, panelVars>>

(***************************************************************************)
(* Backtest error aggregation as a function of the result: every result    *)
(* whose windows hold prefixes of the patterns below, of independent       *)
(* lengths, and every stored backtest over the same values; then a render. *)
(***************************************************************************)
Prefixes(patterns, n) ==
  { SubSeq(p, 1, IF m < Len(p) THEN m ELSE Len(p)) : p \in patterns, m \in 0..n }

ActualPatterns == {<<4, 0, -2, 4>>, <<-2, 4, 0, -2>>}
ForecastPatterns == {<<1, 6, 1, 6>>}

MapeWindows ==
  { [actual_values |-> a, forecast_values |-> f,
     timestamps |-> [i \in 1..Len(a) |-> TimestampPool[i]],
     history_start |-> TimestampPool[1], history_end |-> TimestampPool[1],
     target_start |-> TimestampPool[1], target_end |-> TimestampPool[2]] :
      a \in Prefixes(ActualPatterns, MaxWinLen),
      f \in Prefixes(ForecastPatterns, MaxWinLen) }

\* the overall metrics of the service: one per quality label
ServiceMetrics ==
  {[mape |-> Num(5), mae |-> Num(1)], [mape |-> Num(10), mae |-> Rat(3, 2)],
   [mape |-> Rat(51, 2), mae |-> Num(2)], [mape |-> Num(30), mae |-> Num(7)]}

MapeResults ==
  { [windows |-> ws, mape |-> m.mape, mae |-> m.mae,
     cutoff_date |-> TimestampPool[1]] :
      ws \in SeqsUpTo(MapeWindows, MaxWindows), m \in ServiceMetrics }

StoredDetails ==
  { [windows |-> ws] :
      ws \in SeqsUpTo({ [actual_value |-> a, forecast_value |-> f] :
                          a \in {-2, 0, 4}, f \in {1, 6} }, MaxWinLen) }

LoadedSeries == transformData(<<TimestampPool[1], TimestampPool[2]>>, <<100, 90>>)

InitMape ==
  /\ data = LoadedSeries
  /\ selectedRange = Null
  /\ ticker = <<"NVDA">>
  /\ currency = Null
  /\ \/ backtestResult \in MapeResults /\ detail = Null
     \/ backtestResult = Null /\ detail \in StoredDetails
  /\ searchResult = Null
  /\ Idle

NextMape ==
  \/ RenderBacktestResults
  \/ RenderPerformanceDashboard

SpecMape == InitMape /\ [][NextMape]_vars

\* BacktestResults shows a result
ShowsResult == view.component = "BacktestResults" /\ view.panel = "result"

\* C6: the per-point error is exactly 0 when the actual value is 0, whatever
\* the forecast value, in the per-window errors of BacktestResults and in the
\* rows of the stored-backtest table.
C6_ZeroActualZeroError ==
  /\ ShowsResult =>
       \A w \in 1..Len(backtestResult.windows) :
         \A i \in 1..Len(backtestResult.windows[w].actual_values) :
           backtestResult.windows[w].actual_values[i] = 0
             => view.windows[w].windowErrors[i] = Num(0)
  /\ view.component = "PerformanceDashboard" =>
       \A i \in 1..Len(view.rows) :
         detail.windows[i].actual_value = 0 => view.rows[i].err = Num(0)

\* a window with a zero actual value against a non-zero forecast is shown
C6_Witness ==
  /\ ShowsResult
  /\ \E w \in 1..Len(backtestResult.windows) :
       \E i \in 1..Len(backtestResult.windows[w].actual_values) :
         /\ backtestResult.windows[w].actual_values[i] = 0
         /\ i <= Len(backtestResult.windows[w].forecast_values)
         /\ backtestResult.windows[w].forecast_values[i] # 0
         /\ view.windows[w].windowErrors[i] = Num(0)

\* the points of window w that have an actual value other than 0 and a
\* forecast value
ScoredPoints(w) ==
  { i \in 1..Len(backtestResult.windows[w].actual_values) :
      /\ backtestResult.windows[w].actual_values[i] # 0
      /\ i <= Len(backtestResult.windows[w].forecast_values) }

\* C7 as claimed: for every point of a window whose actual value is not 0,
\* positive or negative, the per-point error equals
\* |actual - forecast| / actual * 100.
C7_ErrorOverSignedActual ==
  ShowsResult =>
    \A w \in 1..Len(backtestResult.windows) : \A i \in ScoredPoints(w) :
      LET a == backtestResult.windows[w].actual_values[i]
          f == backtestResult.windows[w].forecast_values[i]
          e == view.windows[w].windowErrors[i]
      IN  IsNum(e) /\ e.n * a = AbsInt(a - f) * 100 * e.d

\* C7 as amended: for every point of a window whose actual value is not 0 and
\* which has a forecast value, the per-point error equals
\* |actual - forecast| / |actual| * 100.
C7_ErrorOverAbsActual ==
  ShowsResult =>
    \A w \in 1..Len(backtestResult.windows) : \A i \in ScoredPoints(w) :
      LET a == backtestResult.windows[w].actual_values[i]
          f == backtestResult.windows[w].forecast_values[i]
          e == view.windows[w].windowErrors[i]
      IN  IsNum(e) /\ e.n * AbsInt(a) = AbsInt(a - f) * 100 * e.d

\* a point with a negative actual value is shown with a positive error
C7_Witness ==
  /\ ShowsResult
  /\ \E w \in 1..Len(backtestResult.windows) : \E i \in ScoredPoints(w) :
       /\ backtestResult.windows[w].actual_values[i] < 0
       /\ Sign(view.windows[w].windowErrors[i]) > 0

\* the sum of a sequence of numbers, from its end
RECURSIVE SumOf(_)
SumOf(errors) ==
  IF errors = <<>> THEN Num(0)
  ELSE Add(errors[Len(errors)], SumOf(SubSeq(errors, 1, Len(errors) - 1)))

\* m is the arithmetic mean of the numbers errors
IsMeanOf(m, errors) ==
  /\ Len(errors) > 0
  /\ \A i \in 1..Len(errors) : IsNum(errors[i])
  /\ IsNum(m)
  /\ Mul(m, Num(Len(errors))) = SumOf(errors)

\* C8 as claimed: for every window the service can return, also one whose
\* actual_values and forecast_values differ in length or are empty, the
\* window MAPE is the arithmetic mean of the window's per-point errors.
C8_WindowMapeIsMeanAlways ==
  ShowsResult =>
    \A w \in 1..Len(backtestResult.windows) :
      IsMeanOf(view.windows[w].windowMape, view.windows[w].windowErrors)

\* C8 as amended: for every window with at least one actual value and a
\* forecast value for each actual value, the window MAPE is the arithmetic
\* mean of the window's per-point errors: their sum over all entries of
\* actual_values divided by the number of entries.
C8_WindowMapeIsMean ==
  ShowsResult =>
    \A w \in 1..Len(backtestResult.windows) :
      (/\ Len(backtestResult.windows[w].actual_values) > 0
       /\ Len(backtestResult.windows[w].forecast_values)
            >= Len(backtestResult.windows[w].actual_values))
        => /\ Len(view.windows[w].windowErrors)
                = Len(backtestResult.windows[w].actual_values)
           /\ IsMeanOf(view.windows[w].windowMape, view.windows[w].windowErrors)

\* a window of two points with different errors is shown with their mean
C8_Witness ==
  /\ ShowsResult
  /\ \E w \in 1..Len(backtestResult.windows) :
       /\ Len(backtestResult.windows[w].actual_values) = 2
       /\ Len(backtestResult.windows[w].forecast_values) >= 2
       /\ view.windows[w].windowErrors[1] # view.windows[w].windowErrors[2]
       /\ IsMeanOf(view.windows[w].windowMape, view.windows[w].windowErrors)

\* the label of a MAPE given as a rational
LabelOf(mape) ==
  IF mape.n < 10 * mape.d THEN "Excellent"
  ELSE IF mape.n < 20 * mape.d THEN "Good"
  ELSE IF mape.n < 30 * mape.d THEN "Fair"
  ELSE "Poor"

\* C9: the overall MAPE and MAE shown, and the quality label, are those of
\* the mape and mae fields of the service response whatever the windows are;
\* they are never recomputed from the windows.
C9_OverallMetricsVerbatim ==
  ShowsResult =>
    /\ view.mape = ToFixed(backtestResult.mape, 2)
    /\ view.mae = ToFixed(backtestResult.mae, 2)
    /\ view.mapeQuality = LabelOf(backtestResult.mape)

\* a result is shown whose window MAPE has another label than its mape field
C9_Witness ==
  /\ ShowsResult
  /\ Len(backtestResult.windows) > 0
  /\ IsNum(view.windows[1].windowMape)
  /\ view.windows[1].quality # view.mapeQuality
  /\ view.mapeQuality = "Excellent"

(***************************************************************************)
(* The forecast overlay as a function of the result and the full series:   *)
(* every result whose windows hold prefixes of the timestamp and forecast  *)
(* patterns, of independent lengths, over every prefix of a loaded series. *)
(***************************************************************************)
WindowTimestampPatterns ==
  {<<TimestampPool[2], TimestampPool[3], TimestampPool[4], TimestampPool[1]>>,
   <<TimestampPool[3], TimestampPool[1], TimestampPool[2], TimestampPool[4]>>}

OverlayWindows ==
  { [actual_values |-> [i \in 1..Len(ts) |-> 4], forecast_values |-> f,
     timestamps |-> ts,
     history_start |-> TimestampPool[1], history_end |-> TimestampPool[1],
     target_start |-> TimestampPool[1], target_end |-> TimestampPool[2]] :
      ts \in Prefixes(WindowTimestampPatterns, MaxWinLen),
      f \in Prefixes(ForecastPatterns, MaxWinLen) }

OverlayResults ==
  { [windows |-> ws, mape |-> Num(5), mae |-> Num(1),
     cutoff_date |-> TimestampPool[1]] :
      ws \in SeqsUpTo(OverlayWindows, MaxWindows) }

OverlaySeries ==
  { transformData(SubSeq(TimestampPool, 1, n), SubSeq(ValuePattern, 1, n)) :
      n \in 0..(IF MaxLen < Len(TimestampPool) THEN MaxLen ELSE Len(TimestampPool)) }

InitOverlay ==
  /\ data \in OverlaySeries
  /\ selectedRange = Null
  /\ ticker = <<"NVDA">>
  /\ currency = Null
  /\ backtestResult \in OverlayResults
  /\ detail = Null
  /\ searchResult = Null
  /\ Idle

NextOverlay == RenderBacktestResults

SpecOverlay == InitOverlay /\ [][NextOverlay]_vars

(***************************************************************************)
(* Dates: a series, a backtest result and event lists whose date texts are *)
(* ISO texts, texts only the Date constructor reads, and texts that are    *)
(* no date; the chart, the backtest panel and the event list render them.  *)
(***************************************************************************)
MalformedDates == {<<"n/a">>, <<"d1", "T", "zz">>}

DateStrings ==
  {TimestampPool[1], TimestampPool[2]} \cup LegacyDates \cup MalformedDates

\* a backtest result over the timestamps ts, with ts' first and last entries
\* as the dates of its window and its cutoff
DatedResult(ts) ==
  [windows |-> <<[actual_values |-> [i \in 1..Len(ts) |-> 4],
                  forecast_values |-> [i \in 1..Len(ts) |-> 3],
                  timestamps |-> ts,
                  history_start |-> ts[1], history_end |-> ts[1],
                  target_start |-> ts[1], target_end |-> ts[Len(ts)]]>>,
   mape |-> Num(25), mae |-> Num(1), cutoff_date |-> ts[Len(ts)]]

\* event lists the service answers: one event of any date text, or an ISO
\* date followed by a text that is no date
DatedEvents(req) ==
  { [ticker |-> req.ticker, events |-> <<[date |-> d, title |-> <<"event">>]>>] :
      d \in DateStrings }
  \cup { [ticker |-> req.ticker,
          events |-> <<[date |-> TimestampPool[2], title |-> <<"event">>],
                       [date |-> d, title |-> <<"event">>]>>] :
           d \in MalformedDates }

InitDates ==
  /\ \E ts \in SeqsUpTo(DateStrings, MaxLen) \ {<<>>} :
       /\ data = transformData(ts, [i \in 1..Len(ts) |-> 100])
       /\ backtestResult = DatedResult(ts)
  /\ selectedRange = Null
  /\ ticker = <<"NVDA">>
  /\ currency = Null
  /\ detail = Null
  /\ searchResult = Null
  /\ Idle

NextDates ==
  \/ RenderChart
  \/ RenderBacktestResults
  \/ handleCriticalEvents
  \/ \E req \in eventsInflight : \E result \in DatedEvents(req) :
       EventsResolved(req, result)
  \/ RenderCriticalEventsList

SpecDates == InitDates /\ [][NextDates]_vars

\* the keys of map that are the date part of timestamp ts (at most one)
DateKeys(map, ts) == { key \in DOMAIN map : IsDatePartOf(key, ts) }

\* C10: every calendar date (timestamp truncated at 'T') present in any
\* window's timestamps is a key of the lookup map; each point of the full
\* series gets the map's forecast for its date, and every point whose date is
\* absent from all windows gets forecast = null in the merged series, while
\* its actual value is unchanged.
C10_DateBucketOverlay ==
  ShowsResult =>
    /\ \A w \in 1..Len(backtestResult.windows) :
         \A i \in 1..Len(backtestResult.windows[w].timestamps) :
           DateKeys(view.forecastMap, backtestResult.windows[w].timestamps[i]) # {}
    /\ \A key \in DOMAIN view.forecastMap :
         \E w \in 1..Len(backtestResult.windows) :
           \E i \in 1..Len(backtestResult.windows[w].timestamps) :
             IsDatePartOf(key, backtestResult.windows[w].timestamps[i])
    /\ Len(data) > 0 =>
         /\ Len(view.chartData) = Len(data)
         /\ \A i \in 1..Len(data) :
              /\ view.chartData[i].date = data[i].timestamp
              /\ view.chartData[i].actual = data[i].value
              /\ \A key \in DateKeys(view.forecastMap, data[i].timestamp) :
                   view.chartData[i].forecast =
                     IF view.forecastMap[key] = Undefined THEN Null
                     ELSE view.forecastMap[key]
              /\ DateKeys(view.forecastMap, data[i].timestamp) = {}
                   => view.chartData[i].forecast = Null

\* a point of the series carries the forecast a window gives for another time
\* of the same date, and another point, of a date in no window, carries null
C10_Witness ==
  /\ ShowsResult
  /\ \E i \in 1..Len(data) :
       /\ IsNum(view.chartData[i].forecast)
       /\ \A w \in 1..Len(backtestResult.windows) :
            \A j \in 1..Len(backtestResult.windows[w].timestamps) :
              backtestResult.windows[w].timestamps[j] # data[i].timestamp
  /\ \E i \in 1..Len(data) :
       /\ view.chartData[i].forecast = Null
       /\ DateKeys(view.forecastMap, data[i].timestamp) = {}

\* the entries of the windows in iteration order: windows in sequence order,
\* then timestamps in index order, each with the forecast value at its index
RECURSIVE EntriesFrom(_, _)
EntriesFrom(windows, w) ==
  IF w > Len(windows) THEN <<>>
  ELSE [i \in 1..Len(windows[w].timestamps) |->
          [timestamp |-> windows[w].timestamps[i],
           forecast |-> NumAt(windows[w].forecast_values, i - 1)]]
       \o EntriesFrom(windows, w + 1)

\* the positions of the entries of a date key, all of them and those that
\* carry a forecast value
EntriesOf(entries, key) ==
  { e \in 1..Len(entries) : IsDatePartOf(key, entries[e].timestamp) }

ForecastsOf(entries, key) ==
  { e \in EntriesOf(entries, key) : entries[e].forecast # Undefined }

Last(S) == CHOOSE e \in S : \A x \in S : x <= e

\* the forecast the merged series shows for the date key
ShownForecast(key) ==
  IF view.forecastMap[key] = Undefined THEN Null ELSE view.forecastMap[key]

\* C11 as claimed: when several window entries carry a forecast for the same
\* calendar date, the value attached to that date is the forecast of the last
\* of the entries that carry one, in iteration order.
C11_LastForecastWins ==
  ShowsResult =>
    LET entries == EntriesFrom(backtestResult.windows, 1)
    IN  \A key \in DOMAIN view.forecastMap :
          Cardinality(ForecastsOf(entries, key)) >= 2
            => ShownForecast(key) = entries[Last(ForecastsOf(entries, key))].forecast

\* C11 as amended: when several window entries have the same calendar date,
\* the value attached to that date is that of the last of these entries in
\* iteration order: its forecast value, or none when forecast_values has no
\* value at its index; every point of the series with that date shows it.
C11_LastEntryWins ==
  ShowsResult =>
    LET entries == EntriesFrom(backtestResult.windows, 1)
    IN  \A key \in DOMAIN view.forecastMap :
          Cardinality(EntriesOf(entries, key)) >= 2
            => /\ view.forecastMap[key] = entries[Last(EntriesOf(entries, key))].forecast
               /\ \A i \in 1..Len(data) :
                    IsDatePartOf(key, data[i].timestamp)
                      => view.chartData[i].forecast = ShownForecast(key)

\* two entries carry different forecasts for one date and a point of the
\* series with that date shows the later one
C11_Witness ==
  /\ ShowsResult
  /\ LET entries == EntriesFrom(backtestResult.windows, 1)
     IN  \E key \in DOMAIN view.forecastMap :
           \E e1 \in ForecastsOf(entries, key) :
             /\ e1 < Last(EntriesOf(entries, key))
             /\ Last(EntriesOf(entries, key)) \in ForecastsOf(entries, key)
             /\ entries[e1].forecast # entries[Last(EntriesOf(entries, key))].forecast
             /\ \E i \in 1..Len(data) :
                  /\ IsDatePartOf(key, data[i].timestamp)
                  /\ view.chartData[i].forecast
                       = entries[Last(EntriesOf(entries, key))].forecast

(***************************************************************************)
(* Properties of the selection panels (SpecPanels).                        *)
(***************************************************************************)
\* C12: requests are never cancelled and have no ordering guarantee: the
\* answer to every fetchHaverSeries and fetchStoredBacktestDetail call is
\* applied when it arrives, whatever position the call has among those in
\* flight, so the state holds the answer that arrived last, also when it
\* belongs to the call issued first.
C12_EveryResponseApplied ==
  /\ applied.kind = "series" => seriesList = applied.response
  /\ applied.kind = "detail" => detail = applied.response

\* G10 was selected after USECON and both lists were requested; the USECON
\* answer arrived last and is the list shown for G10
C12_Witness ==
  /\ applied.kind = "series"
  /\ seriesInflight = <<>>
  /\ selectedDatabase = <<"G10">>
  /\ applied.request = <<"USECON">>
  /\ seriesList = SeriesOf(<<"USECON">>)

\* the detail of AAPL arrived last while MSFT is the selected symbol
C12_StaleDetailShown ==
  /\ applied.kind = "detail"
  /\ detailInflight = <<>>
  /\ selectedSymbol = Str(<<"MSFT">>)
  /\ detail.summary.symbol = <<"AAPL">>

(***************************************************************************)
(* Properties of the requests (SpecRequests).                              *)
(***************************************************************************)
\* the last step was the failure of a request of the kind
Failed(kind) == applied.kind = kind /\ "thrown" \in DOMAIN applied

\* the display string of a failure: the Error's message, else the fallback
DisplayString(thrown, fallback) ==
  IF thrown.isError THEN Str(thrown.message) ELSE Str(fallback)

Unparsable(s) == IsInvalid(parseISO(s)) /\ IsInvalid(NewDate(s))
WellFormed(s) == ~IsInvalid(parseISO(s))

\* the label of the date text s: s itself when no parser reads it, the
\* formatted date when s is well formed
LabelFallsBack(label, s, pattern) ==
  /\ Unparsable(s) => label = s
  /\ WellFormed(s) => label = format(parseISO(s), pattern) /\ label # s

\* the labels of the series, of the chart axis and of the backtest panel fall
\* back to the raw text
SeriesAndBacktestFallBack ==
  /\ \A i \in 1..Len(data) :
       LabelFallsBack(data[i].formattedDate, data[i].timestamp, "MMM d, yyyy")
  /\ view.component = "TimeSeriesChart" =>
       \A i \in 1..Len(data) :
         LabelFallsBack(view.ticks[i], data[i].timestamp, "MMM yyyy")
  /\ (view.component = "BacktestResults" /\ view.panel = "result") =>
       /\ LabelFallsBack(view.cutoff, backtestResult.cutoff_date, "MMM d, yyyy")
       /\ \A i \in 1..Len(view.chartData) :
            LabelFallsBack(view.ticks[i], view.chartData[i].date, "MMM d")
       /\ \A w \in 1..Len(backtestResult.windows) :
            /\ LabelFallsBack(view.windows[w].target_start,
                              backtestResult.windows[w].target_start, "MMM d, yyyy")
            /\ LabelFallsBack(view.windows[w].target_end,
                              backtestResult.windows[w].target_end, "MMM d, yyyy")
            /\ LabelFallsBack(view.windows[w].history_start,
                              backtestResult.windows[w].history_start, "MMM d, yyyy")
            /\ LabelFallsBack(view.windows[w].history_end,
                              backtestResult.windows[w].history_end, "MMM d, yyyy")

\* the event list is rendered with its events
EventsRendered == view.component = "CriticalEventsList" /\ view.panel = "result"

\* C14 as stated: a timestamp or event date that no parser reads as a date
\* is shown as the original text, unchanged (formattedDate of the series,
\* the chart axis tick, the backtest dates, the date of a critical event),
\* and a well-formed date of the same series is shown formatted.
C14_MalformedShownRaw ==
  /\ SeriesAndBacktestFallBack
  /\ EventsRendered =>
       \A i \in 1..Len(view.events) :
         /\ Unparsable(view.events[i].key[1]) =>
              view.events[i].monthStr \o view.events[i].dayStr
                = view.events[i].key[1]
         /\ WellFormed(view.events[i].key[1]) =>
              /\ view.events[i].monthStr
                   = format(parseISO(view.events[i].key[1]), "MMM")
              /\ view.events[i].dayStr
                   = format(parseISO(view.events[i].key[1]), "d")

\* C14 (amended): formattedDate of the series, the chart axis tick and the
\* backtest dates of a text that no parser reads as a date are that text,
\* unchanged; the date badge of a critical event with such a date shows the
\* placeholders '---' and '--' for the month and the day; no formatting step
\* fails, and the well-formed dates of the same series or event list are
\* shown formatted.
C14_MalformedFallsBack ==
  /\ SeriesAndBacktestFallBack
  /\ EventsRendered =>
       \A i \in 1..Len(view.events) :
         /\ Unparsable(view.events[i].key[1]) =>
              /\ view.events[i].monthStr = <<"---">>
              /\ view.events[i].dayStr = <<"--">>
         /\ WellFormed(view.events[i].key[1]) =>
              /\ view.events[i].monthStr
                   = format(parseISO(view.events[i].key[1]), "MMM")
              /\ view.events[i].dayStr
                   = format(parseISO(view.events[i].key[1]), "d")
              /\ view.events[i].monthStr \o view.events[i].dayStr
                   # view.events[i].key[1]

\* the event list shows a well-formed event date and one that is no date,
\* over a series with a timestamp that is no date and a well-formed one
C14_Witness ==
  /\ EventsRendered
  /\ \E i, j \in 1..Len(view.events) :
       /\ Unparsable(view.events[i].key[1])
       /\ view.events[i].monthStr = <<"---">>
       /\ WellFormed(view.events[j].key[1])
  /\ \E i, j \in 1..Len(data) :
       /\ Unparsable(data[i].timestamp)
       /\ data[i].formattedDate = data[i].timestamp
       /\ WellFormed(data[j].timestamp)
       /\ data[j].formattedDate # data[j].timestamp

(***************************************************************************)
(* Alignment of timestamps and values (SpecRequests).                      *)
(***************************************************************************)
\* points has one point per timestamp, in order, point i built from
\* timestamps[i] and values[i]
AlignedWith(points, timestamps, values) ==
  /\ Len(points) = Len(timestamps)
  /\ \A i \in 1..Len(timestamps) :
       /\ points[i].timestamp = timestamps[i]
       /\ points[i].date = timestamps[i]
       /\ i <= Len(values) => points[i].value = Num(values[i])

\* C15: the series a data response produces has exactly one point per
\* timestamp, in the same order, point i built from timestamps[i] and
\* values[i]; the request handleBacktest sends has timestamps and values of
\* equal length, values[i] being the value of the point of the series whose
\* timestamp is timestamps[i].
C15_IndexAligned ==
  [][/\ (applied'.kind = "data" /\ "response" \in DOMAIN applied') =>
          AlignedWith(data', applied'.response.timestamps, applied'.response.values)
     /\ \A req \in backtestInflight' \ backtestInflight :
          /\ Len(req.timestamps) = Len(req.values)
          /\ Len(req.timestamps) = Len(data)
          /\ \A i \in 1..Len(data) :
               /\ req.timestamps[i] = data[i].timestamp
               /\ req.values[i] = data[i].value]_vars

\* a backtest request is in flight for a loaded series of two points with
\* different values, and carries the points' timestamps and values in order
C15_Witness ==
  /\ applied.kind = "none"
  /\ Len(data) = 2
  /\ data[1].value # data[2].value
  /\ data[1].timestamp # data[2].timestamp
  /\ \E req \in backtestInflight :
       /\ req.timestamps = <<data[1].timestamp, data[2].timestamp>>
       /\ req.values = <<data[1].value, data[2].value>>

(***************************************************************************)
(* The two ranges and the requests (SpecRanges).                           *)
(***************************************************************************)
\* the request carries the dates of the range
SendsDatesOf(req, range) ==
  req.start_date = range.startDate /\ req.end_date = range.endDate

\* C16: a critical-events request carries the dates of the brush range, a
\* search or backtest request the dates of the drag-selected range; a step
\* that changes the drag-selected range changes neither the brush range nor
\* an events request, and a step that changes the brush range changes
\* neither the drag-selected range nor a search or backtest request.
C16_RangesIndependent ==
  [][/\ \A req \in eventsInflight' \ eventsInflight : SendsDatesOf(req, brushRange)
     /\ \A req \in searchInflight' \ searchInflight : SendsDatesOf(req, selectedRange)
     /\ \A req \in backtestInflight' \ backtestInflight : SendsDatesOf(req, selectedRange)
     /\ selectedRange' # selectedRange =>
          brushRange' = brushRange /\ eventsInflight' = eventsInflight
     /\ brushRange' # brushRange =>
          /\ selectedRange' = selectedRange
          /\ searchInflight' = searchInflight
          /\ backtestInflight' = backtestInflight]_vars

\* an events request and a search request are in flight together, each with
\* the dates of its own range, and the two ranges have different dates
C16_Witness ==
  /\ brushRange # Null
  /\ selectedRange # Null
  /\ brushRange.startDate # selectedRange.startDate
  /\ \E req \in eventsInflight : SendsDatesOf(req, brushRange)
  /\ \E req \in searchInflight : SendsDatesOf(req, selectedRange)

(***************************************************************************)
(* The selected range and the displayed series (SpecChart).                *)
(***************************************************************************)
\* C17: in every reachable state a selectedRange other than null indexes the
\* displayed series: 0 <= startIndex < endIndex <= data.length - 1, and its
\* startDate and endDate are the date parts of the timestamps of the points
\* at startIndex and endIndex; also after gestures made while a load is in
\* flight.
C17_RangeIndexesSeries ==
  selectedRange # Null =>
    /\ 0 <= selectedRange.startIndex
    /\ selectedRange.startIndex < selectedRange.endIndex
    /\ selectedRange.endIndex <= Len(data) - 1
    /\ selectedRange.startDate = SplitT0(data[selectedRange.startIndex + 1].timestamp)
    /\ selectedRange.endDate = SplitT0(data[selectedRange.endIndex + 1].timestamp)

(***************************************************************************)
(* Results and the ranges they were requested for (SpecRanges).            *)
(***************************************************************************)
\* the last step applied the response of a request of the kind, which is
\* now the displayed result of the kind
Shown(kind) == applied.kind = kind /\ "response" \in DOMAIN applied

\* the request was issued for the current ticker and the dates of the range
IssuedFor(req, range) ==
  /\ range # Null
  /\ req.ticker = ticker
  /\ SendsDatesOf(req, range)

\* C18: a search, backtest or critical-events response that becomes the
\* displayed result of its kind was returned by a request issued for the
\* current ticker and the current range of the kind (selectedRange for
\* search and backtest, brushRange for critical events); the response of a
\* request issued before the range or the series changed is never shown.
C18_ResultForCurrentRange ==
  /\ Shown("search") =>
       searchResult = applied.response /\ IssuedFor(applied.request, selectedRange)
  /\ Shown("backtest") =>
       backtestResult = applied.response /\ IssuedFor(applied.request, selectedRange)
  /\ Shown("events") =>
       criticalEventsResult = applied.response /\ IssuedFor(applied.request, brushRange)

(***************************************************************************)
(* Independence of the three kinds of request (SpecRequests).              *)
(***************************************************************************)
\* the step starts or completes a request of the kind
SearchStep == searchInflight' # searchInflight
BacktestStep == backtestInflight' # backtestInflight
EventsStep == eventsInflight' # eventsInflight

\* C19: a step that starts or completes a search changes only the search
\* result, error and loading flag; a step that starts or completes a
\* backtest only those of the backtest; a step that starts or completes a
\* critical-events request only those of the events and showEventMarkers.
\* The state of the other kinds, selectedRange, brushRange and the series
\* are unchanged.
C19_KindsIndependent ==
  [][/\ SearchStep => UNCHANGED <<backtestVars, eventsVars, hookVars>>
     /\ BacktestStep => UNCHANGED <<searchVars, eventsVars, hookVars>>
     /\ EventsStep => UNCHANGED <<searchVars, backtestVars, hookVars, brushRange>>]_vars

\* a search has just completed while a backtest is running and the events
\* of the brush range are shown with their markers
C19_Witness ==
  /\ Shown("search")
  /\ searchResult # Null
  /\ backtestLoading
  /\ criticalEventsResult # Null
  /\ showEventMarkers

(***************************************************************************)
(* handleRangeChange (SpecSelect).                                         *)
(***************************************************************************)
\* C20: a step in which handleRangeChange sets selectedRange also clears
\* the search result and error and the backtest result and error; the brush
\* range, the events result and error, the marker visibility and the
\* series are unchanged by it.
C20_RangeChangeClearsResults ==
  [][rangeCall'.called =>
       /\ selectedRange' = rangeCall'.range
       /\ searchResult' = Null
       /\ searchError' = Null
       /\ backtestResult' = Null
       /\ backtestError' = Null
       /\ UNCHANGED <<brushRange, criticalEventsResult, criticalEventsError,
                      showEventMarkers, data>>]_vars

\* handleRangeChange has just replaced the selected range by no range: no
\* search or backtest result or error is left, and the events of the brush
\* range are still shown with their markers
C20_Witness ==
  /\ rangeCall.called
  /\ rangeCall.previous # Null
  /\ rangeCall.range = Null
  /\ selectedRange = Null
  /\ searchResult = Null /\ searchError = Null
  /\ backtestResult = Null /\ backtestError = Null
  /\ criticalEventsResult # Null
  /\ showEventMarkers

(***************************************************************************)
(* The drag state of TimeSeriesChart (SpecChart).                          *)
(***************************************************************************)
\* the drag state after onMouseUp: no drag, no end label
DragReset == ~isDragging' /\ refAreaLeft' = Null /\ refAreaRight' = Null

\* C21: onMouseDown on a labelled point starts a drag with both ends at that
\* point; onMouseMove over a labelled point during a drag moves the right
\* end to that point and onMouseMove with no drag in progress changes
\* nothing; onMouseUp always resets the drag state, whether or not a range
\* was emitted.  Hence isDragging is true exactly when refAreaLeft is set
\* and exactly when refAreaRight is set.
C21_DragStateConsistent ==
  [][/\ \A label \in ActiveLabels :
          /\ (onMouseDown(label) /\ Truthy(label)) =>
               isDragging' /\ refAreaLeft' = label /\ refAreaRight' = label
          /\ (onMouseMove(label) /\ isDragging /\ Truthy(label)) =>
               refAreaRight' = label /\ UNCHANGED <<refAreaLeft, isDragging>>
          /\ (onMouseMove(label) /\ ~isDragging) => UNCHANGED chartVars
     /\ onMouseUp => DragReset
     /\ isDragging' <=> Truthy(refAreaLeft')
     /\ isDragging' <=> Truthy(refAreaRight')]_vars

(***************************************************************************)
(* A series replaced during a drag (SpecChart).                            *)
(***************************************************************************)
\* C27: when onMouseUp ends a drag, also one during which a load replaced
\* the series, it reads no point outside the current series: either both
\* end labels are found in the current series and a range with valid
\* indices is emitted, or no range is emitted and the selection is cleared;
\* in both cases the handler completes and the drag state is reset.
C27_MouseUpWithinSeries ==
  [][(onMouseUp /\ isDragging /\ Truthy(refAreaLeft) /\ Truthy(refAreaRight)) =>
       /\ DragReset
       /\ rangeCall'.called
       /\ selectedRange' = rangeCall'.range
       /\ rangeCall'.range # Null =>
            /\ 0 <= rangeCall'.leftIndex
            /\ 0 <= rangeCall'.rightIndex
            /\ 0 <= rangeCall'.range.startIndex
            /\ rangeCall'.range.startIndex < rangeCall'.range.endIndex
            /\ rangeCall'.range.endIndex <= Len(data) - 1]_vars

(***************************************************************************)
(* The Haver request (SpecHaver).                                          *)
(***************************************************************************)
\* C22: onLoadHaver(database, series) is called only with a series of the
\* series list the service holds for that same database, for any
\* interleaving of database selections, series selections and series-list
\* responses.
C22_SeriesOfItsDatabase ==
  \A req \in dataInflight :
    req.kind = "haver" =>
      \E i \in 1..Len(SeriesOf(req.database)) :
        SeriesOf(req.database)[i].name = req.symbol

(***************************************************************************)
(* Every request ends its loading state (SpecSettling).                    *)
(***************************************************************************)
\* the step that settled a request of the kind wrote exactly one of the
\* kind's result and error
OneWritten(kind, result, err) ==
  /\ Shown(kind) => result # Null /\ err = Null
  /\ Failed(kind) => result = Null /\ err # Null

\* C23: once the data, search, backtest or critical-events loading flag is
\* true, and the promise of the request settles, the flag becomes false
\* again, after one attempt: the step that settles the request writes
\* exactly one of the kind's result and error, clears the flag and leaves no
\* request of the kind in flight.
C23_LoadingEnds ==
  /\ loading ~> ~loading
  /\ searchLoading ~> ~searchLoading
  /\ backtestLoading ~> ~backtestLoading
  /\ criticalEventsLoading ~> ~criticalEventsLoading
  /\ [](/\ Shown("data") =>
             /\ data = transformData(applied.response.timestamps,
                                     applied.response.values)
             /\ error = Null
        /\ Failed("data") => data = <<>> /\ error # Null
        /\ OneWritten("search", searchResult, searchError)
        /\ OneWritten("backtest", backtestResult, backtestError)
        /\ OneWritten("events", criticalEventsResult, criticalEventsError)
        /\ applied.kind = "data" => ~loading /\ dataInflight = {}
        /\ applied.kind = "search" => ~searchLoading /\ searchInflight = {}
        /\ applied.kind = "backtest" => ~backtestLoading /\ backtestInflight = {}
        /\ applied.kind = "events" => ~criticalEventsLoading /\ eventsInflight = {})

\* a backtest has just failed: its loading flag is false again, its error is
\* written and its result is not, while the events are still loading
C23_Witness ==
  /\ Failed("backtest")
  /\ ~backtestLoading
  /\ backtestError # Null
  /\ backtestResult = Null
  /\ criticalEventsLoading

(***************************************************************************)
(* Result and error of one analysis kind (SpecRequests).                   *)
(***************************************************************************)
\* C24: for the search, the backtest and the critical events, the result
\* and the error of the kind are never both set, where a request of the
\* kind starts only while the kind's loading flag is false.
C24_ResultOrError ==
  /\ ~(searchResult # Null /\ searchError # Null)
  /\ ~(backtestResult # Null /\ backtestError # Null)
  /\ ~(criticalEventsResult # Null /\ criticalEventsError # Null)

\* a search has just failed after a backtest was answered: the search shows
\* its error alone and the backtest its result alone, while a second
\* critical-events request replaces the failure of the first
C24_Witness ==
  /\ Failed("search")
  /\ searchError # Null
  /\ searchResult = Null
  /\ backtestResult # Null
  /\ backtestError = Null
  /\ criticalEventsLoading
  /\ criticalEventsError = Null

(***************************************************************************)
(* The event markers (SpecMarkers).                                        *)
(***************************************************************************)
\* a step that switches the markers on applies a critical-events answer or
\* is the checkbox of the displayed event list; a step that clears the
\* result leaves the markers off
MarkersStep ==
  /\ (~showEventMarkers /\ showEventMarkers') =>
       \/ Shown("events")'
       \/ /\ onToggleMarkers(TRUE)
          /\ criticalEventsResult # Null
          /\ Len(criticalEventsResult.events) # 0
  /\ (criticalEventsResult # Null /\ criticalEventsResult' = Null) =>
       ~showEventMarkers'

\* C25: while showEventMarkers is true, criticalEventsResult is set. The
\* markers are switched on only by a critical-events answer being applied or
\* by the checkbox of the displayed event list, and every step that clears
\* the result (a new request, a brush change, a series change) leaves the
\* markers off.
C25_MarkersHaveEvents ==
  /\ [](showEventMarkers => criticalEventsResult # Null)
  /\ [][MarkersStep]_vars

\* the markers are on over a displayed event list, switched on by a step
\* that applied no answer (the checkbox) after the answer had arrived
C25_Witness ==
  /\ showEventMarkers
  /\ criticalEventsResult # Null
  /\ Len(criticalEventsResult.events) # 0
  /\ applied = NoResponse
  /\ ~criticalEventsLoading

(***************************************************************************)
(* The brush range after a series change (SpecBrush).                      *)
(***************************************************************************)
\* C26: after a series change processed by the data effect, brushRange
\* spans the whole current series (startIndex 0, endIndex data.length - 1,
\* the dates being the date parts of the first and last timestamps),
\* whatever the brushRange was before and whatever the new series is; for
\* an empty series brushRange is none.
C26_BrushSpansSeries ==
  applied.kind = "data" =>
    IF Len(data) = 0
      THEN brushRange = Null
      ELSE brushRange = [startDate |-> SplitT0(data[1].timestamp),
                         endDate |-> SplitT0(data[Len(data)].timestamp),
                         startIndex |-> 0,
                         endIndex |-> Len(data) - 1]

(***************************************************************************)
(* Loading flags and pending requests (SpecPanels).                        *)
(***************************************************************************)
\* C28: a loading flag is true whenever a request of its kind awaits its
\* answer: loadingSeries for the series lists, detailLoading for the stored
\* backtest details, loading for the data, and the search, backtest and
\* critical-events flags for their requests.
C28_LoadingWhilePending ==
  /\ seriesInflight # <<>> => loadingSeries
  /\ detailInflight # <<>> => detailLoading
  /\ dataInflight # {} => loading
  /\ searchInflight # {} => searchLoading
  /\ backtestInflight # {} => backtestLoading
  /\ eventsInflight # {} => criticalEventsLoading

(***************************************************************************)
(* What DataSourceSelector emits (SpecSelector).                           *)
(***************************************************************************)
\* the loader call is complete and normalized: a Yahoo ticker is not blank
\* and is its own trimmed upper-case form, a Haver call has a database and
\* a series, a crypto or forex call has a symbol
Normalized(req) ==
  /\ req.symbol # <<>>
  /\ req.kind = "yahoo" =>
       /\ Trim(req.symbol) = req.symbol
       /\ ToUpperCase(req.symbol) = req.symbol
       /\ req.symbol = ToUpperCase(Trim(yahooTicker))
  /\ req.kind = "haver" =>
       /\ req.database # <<>>
       /\ req.database = selectedDatabase
       /\ req.symbol = selectedSeries
  /\ req.kind = "crypto" => req.symbol = selectedCrypto
  /\ req.kind = "forex" => req.symbol = selectedForexPair

\* a step calls at most one loader, the one of the active tab, with
\* normalized input, and calls none for a blank ticker or an incomplete
\* selection; a step that selects another database leaves no series
\* selected and starts the fetch of that database's list
EmitStep ==
  /\ Cardinality(dataInflight' \ dataInflight) <= 1
  /\ \A req \in dataInflight' \ dataInflight :
       req.kind = dataSource /\ Normalized(req)
  /\ (dataSource = "yahoo" /\ Trim(yahooTicker) = <<>>) => dataInflight' \subseteq dataInflight
  /\ (dataSource = "haver" /\ (selectedDatabase = <<>> \/ selectedSeries = <<>>))
       => dataInflight' \subseteq dataInflight
  /\ (selectedDatabase' # selectedDatabase /\ selectedDatabase' # <<>>) =>
       /\ selectedSeries' = <<>>
       /\ seriesInflight' = Append(seriesInflight, selectedDatabase')
       /\ loadingSeries'

\* C29: DataSourceSelector emits only normalized, complete input: the Yahoo
\* ticker trimmed and upper-cased, and nothing for a blank ticker; a Haver
\* call only with a database and a series selected; a crypto or forex call
\* only with a symbol or pair selected; each submit calls at most one loader,
\* that of the active tab; and selecting a database resets the selected
\* series to none before the new list is fetched.
C29_EmitsNormalizedInput == [][EmitStep]_vars

\* the ticker typed as ' nvda ' was submitted on the Yahoo tab: the load of
\* NVDA awaits its answer
C29_Witness ==
  /\ dataSource = "yahoo"
  /\ yahooTicker = <<" ", "nvda", " ">>
  /\ dataInflight = {[kind |-> "yahoo", symbol |-> <<"NVDA">>, database |-> <<>>]}

(***************************************************************************)
(* The grouping of lines by MarkdownRenderer (SpecMarkdown).               *)
(***************************************************************************)
\* the kind of an input line: blank, an item of an unordered list ('- ' or
\* '* '), an item of an ordered list ('N. '), or text
LineKind(line) ==
  IF Trim(line) = <<>> THEN "br"
  ELSE IF isUnorderedList(Trim(line)) THEN "ul"
  ELSE IF isOrderedList(Trim(line)) THEN "ol"
  ELSE "p"

\* the keys (line indices) of an element, in order
KeysOf(element) ==
  IF element.tag \in {"ul", "ol"}
    THEN [i \in 1..Len(element.items) |-> element.items[i].key]
    ELSE <<element.key>>

RECURSIVE RenderedKeys(_)
RenderedKeys(elements) ==
  IF elements = <<>> THEN <<>>
  ELSE KeysOf(Head(elements)) \o RenderedKeys(Tail(elements))

\* every line is rendered once and in order; a blank line is a break, a
\* text line a paragraph, a list line an item of a list of its type; every
\* list is a maximal run of lines of one type
GroupedAs(lines, elements) ==
  /\ RenderedKeys(elements) = [i \in 1..Len(lines) |-> i - 1]
  /\ \A e \in 1..Len(elements) :
       /\ \A k \in 1..Len(KeysOf(elements[e])) :
            LineKind(lines[KeysOf(elements[e])[k] + 1]) = elements[e].tag
       /\ elements[e].tag \in {"ul", "ol"} => Len(elements[e].items) > 0
       /\ e > 1 => ~(elements[e].tag \in {"ul", "ol"}
                       /\ elements[e - 1].tag = elements[e].tag)

\* C30: MarkdownRenderer renders every input line exactly once and in
\* order: a blank line as a break, any other non-list line as a paragraph,
\* and each maximal run of consecutive list lines of one type as one list;
\* no list mixes types and no item is dropped or duplicated.
C30_EveryLineOnce ==
  view.component = "SearchResults" => GroupedAs(view.content, view.elements)

====
